---- MODULE Spec2Model ----
(***************************************************************************)
(* A model of terraform-provider-anthropic: the Admin API client           *)
(* (internal/client/client.go) and the lifecycle adapters built on it      *)
(* (internal/provider/*.go).                                               *)
(*                                                                         *)
(* One lifecycle call (Create, Read, Update, Delete, ImportState of a      *)
(* resource; one loop iteration of a collection data source) is one        *)
(* action.  The remote API is the environment: each HTTP exchange draws    *)
(* its answer from a finite set of possible answers.                       *)
(***************************************************************************)
EXTENDS Integers, Sequences, FiniteSets, TLC

VARIABLES
    client,   \* the *client.Client handed out by provider Configure
    sent,     \* HTTP requests handed to HTTPClient.Do by the current lifecycle call
    diags,    \* resp.Diagnostics of the current lifecycle call
    call,     \* the current lifecycle call: operation, inputs, remote answer
    ws,       \* saved state of the anthropic_workspace instance
    ak,       \* saved state of the anthropic_api_key instance
    wm,       \* saved state of the anthropic_workspace_member instance
    inv,      \* saved state of the anthropic_invite instance
    ds,       \* a collection data source Read in progress (the pagination loop)
    errq,     \* an API error body being rendered by APIError.String
    remote,   \* a remote that keeps its workspaces, and the lifecycle call before this one
    item,     \* what the last Read of a single-item data source was given and stored
    flight    \* per resource instance, the lifecycle call whose request is with the remote

vars == <<client, sent, diags, call, ws, ak, wm, inv, ds, errq, remote, item, flight>>

-----------------------------------------------------------------------------
(* types.String of the plugin framework: null, unknown or a known value.   *)

Null == [k |-> "null", v |-> ""]
Unknown == [k |-> "unknown", v |-> ""]
StringValue(s) == [k |-> "value", v |-> s]
ValueString(x) == IF x.k = "value" THEN x.v ELSE ""
IsNull(x) == x.k = "null"

(* Go's error: nil or a message. *)
NilErr == [nil |-> TRUE, msg |-> ""]
Errorf(m) == [nil |-> FALSE, msg |-> m]

(* One diagnostic of resp.Diagnostics. *)
Diag(summary, detail) == [severity |-> "error", summary |-> summary, detail |-> detail]
HasError(d) == \E i \in 1..Len(d) : d[i].severity = "error"

-----------------------------------------------------------------------------
(* client.go: Client, NewClient, WithBaseURL.                              *)

DefaultBaseURL == "https://api.anthropic.com"
DefaultAPIVersion == "2023-06-01"
DefaultTimeoutSeconds == 30

NewClient(adminKey) ==
    [BaseURL |-> DefaultBaseURL, AdminKey |-> adminKey,
     APIVersion |-> DefaultAPIVersion, Timeout |-> DefaultTimeoutSeconds]

WithBaseURLOnCopy(c, baseURL) == c

WithBaseURL(c, baseURL) == [c EXCEPT !.BaseURL = baseURL]

NoClient == [BaseURL |-> "", AdminKey |-> "", APIVersion |-> "", Timeout |-> 0]

ConfigurePreferringEnv(cfgKey, envKey, cfgURL, envURL) ==
    LET adminKey == IF envKey # "" THEN envKey ELSE ValueString(cfgKey)
        baseURL == IF ~IsNull(cfgURL) THEN ValueString(cfgURL) ELSE envURL
        c == NewClient(adminKey)
    IN  IF adminKey = ""
        THEN [diags |-> <<Diag("Missing Admin Key",
                 "The admin_key must be set in the provider configuration or via the ANTHROPIC_ADMIN_KEY environment variable.")>>,
              client |-> NoClient]
        ELSE [diags |-> <<>>,
              client |-> IF baseURL # "" THEN WithBaseURL(c, baseURL) ELSE c]

(* provider.go: AnthropicProvider.Configure.  cfgKey and cfgURL are the    *)
(* configuration attributes (types.String), envKey and envURL the values   *)
(* of ANTHROPIC_ADMIN_KEY and ANTHROPIC_BASE_URL ("" when unset).          *)
Configure(cfgKey, envKey, cfgURL, envURL) ==
    LET adminKey == IF ~IsNull(cfgKey) THEN ValueString(cfgKey) ELSE envKey
        baseURL == IF ~IsNull(cfgURL) THEN ValueString(cfgURL) ELSE envURL
        c == NewClient(adminKey)
    IN  IF adminKey = ""
        THEN [diags |-> <<Diag("Missing Admin Key",
                 "The admin_key must be set in the provider configuration or via the ANTHROPIC_ADMIN_KEY environment variable.")>>,
              client |-> NoClient]
        ELSE [diags |-> <<>>,
              client |-> IF baseURL # "" THEN WithBaseURL(c, baseURL) ELSE c]

(* Values the host can put in the provider block and the environment.      *)
(* UnparsableBaseURL stands for any base URL net/url cannot parse (here a  *)
(* bracketed host that is never closed).                                   *)
LocalBaseURL == "http://localhost:8080"
UnparsableBaseURL == "http://[::1"
AdminKeys == {"sk-ant-admin-1"}
ConfigKeys == {Null} \cup {StringValue(s) : s \in AdminKeys \cup {""}}
EnvKeys == {"", "sk-ant-admin-env"}
ConfigURLs == {Null, StringValue(""), StringValue(LocalBaseURL), StringValue(UnparsableBaseURL)}
EnvURLs == {"", LocalBaseURL}

(* The clients Configure hands to resources and data sources when the     *)
(* provider block sets admin_key and either leaves base_url unset or sets  *)
(* one that does not parse.                                                *)
ConfiguredClients ==
    {Configure(StringValue(k), "", u, "").client :
        k \in AdminKeys, u \in {Null, StringValue(UnparsableBaseURL)}}

-----------------------------------------------------------------------------
(* client.go: Client.doRequest.                                            *)

StatusBadRequest == 400

(* http.NewRequestWithContext fails when BaseURL+path does not parse.      *)
(* Paths are built from identifiers that parse; the base URL is whatever   *)
(* the host configured.                                                    *)
NewRequestFails(baseURL, path) == baseURL = UnparsableBaseURL

(* A request body: nil, or the JSON object json.Marshal produced. *)
NoFields == [f \in {} |-> ""]
NilBody == [nil |-> TRUE, json |-> NoFields]
JSONBody(obj) == [nil |-> FALSE, json |-> obj]

(* json.Marshal of a struct: a field tagged omitempty is left out when it  *)
(* is the empty string.  fields is the struct as a function from JSON      *)
(* names to values, omitempty the names tagged omitempty.                  *)
Marshal(fields, omitempty) ==
    [f \in {g \in DOMAIN fields : ~(g \in omitempty /\ fields[g] = "")} |-> fields[f]]

(* A response body: empty, not JSON for the destination, a JSON entity     *)
(* (obj) or a JSON error payload (obj). *)
EmptyBody == [kind |-> "empty", raw |-> "", obj |-> NoFields]
GarbageBody == [kind |-> "garbage", raw |-> "<html>Bad Gateway</html>", obj |-> NoFields]
EntityBody(obj) == [kind |-> "entity", raw |-> "", obj |-> obj]
ErrorBody(obj) == [kind |-> "error", raw |-> "", obj |-> obj]

(* What json.Unmarshal reports for GarbageBody. *)
JSONSyntaxError == "invalid character '<' looking for beginning of value"

(* The remote's answer to one exchange: the transport fails, reading the   *)
(* body fails, or an HTTP response with a status and a body arrives.       *)
TransportFailure == [net |-> "dial", status |-> 0, body |-> EmptyBody]
ReadFailure == [net |-> "read", status |-> 200, body |-> EmptyBody]
HTTPResponse(status, body) == [net |-> "ok", status |-> status, body |-> body]

(* APIError and its json.Unmarshal: absent members stay zero. *)
ZeroAPIError == [Type |-> "", Message |-> "", Error |-> [Type |-> "", Message |-> ""]]
UnmarshalAPIError(body) ==
    IF body.kind = "error"
    THEN [Type |-> body.obj.type, Message |-> body.obj.message,
          Error |-> IF body.obj.hasError
                    THEN [Type |-> body.obj.error.type, Message |-> body.obj.error.message]
                    ELSE [Type |-> "", Message |-> ""]]
    ELSE ZeroAPIError

APIErrorStringNestedByType(e) ==
    IF e.Error.Type # ""
    THEN e.Error.Type \o ": " \o e.Error.Message
    ELSE e.Type \o ": " \o e.Message

(* APIError.String *)
APIErrorString(e) ==
    IF e.Error.Message # ""
    THEN e.Error.Type \o ": " \o e.Error.Message
    ELSE e.Type \o ": " \o e.Message

(* doRequest(ctx, method, path, body, result) against the answer env.      *)
(* hasResult is result != nil.  Returns the requests handed to             *)
(* HTTPClient.Do, the error, and what json.Unmarshal was given to fill the *)
(* destination with: filled says that it ran, obj is the JSON object.      *)
(* json.Marshal cannot fail on the request structs of this client (string  *)
(* members only), so that branch is not taken.                             *)
doRequest(c, method, path, body, hasResult, env) ==
    LET req == [method |-> method, url |-> c.BaseURL \o path, path |-> path, body |-> body,
                headers |-> [x_api_key |-> c.AdminKey, anthropic_version |-> c.APIVersion,
                             content_type |-> "application/json"]]
        none == [filled |-> FALSE, obj |-> NoFields]
    IN  IF NewRequestFails(c.BaseURL, path)
        THEN [sent |-> <<>>, into |-> none,
              err |-> Errorf("failed to create request: parse " \o c.BaseURL \o path)]
        ELSE IF env.net = "dial"
        THEN [sent |-> <<req>>, into |-> none,
              err |-> Errorf("request failed: dial tcp: connection refused")]
        ELSE IF env.net = "read"
        THEN [sent |-> <<req>>, into |-> none,
              err |-> Errorf("failed to read response body: unexpected EOF")]
        ELSE IF env.status >= StatusBadRequest
        THEN [sent |-> <<req>>, into |-> none,
              err |-> IF env.body.kind \in {"garbage", "empty"}
                      THEN Errorf("API error (status " \o ToString(env.status) \o "): " \o env.body.raw)
                      ELSE Errorf("API error (status " \o ToString(env.status) \o "): "
                                  \o APIErrorString(UnmarshalAPIError(env.body)))]
        ELSE IF hasResult /\ env.body.kind # "empty"
        THEN IF env.body.kind = "garbage"
             THEN [sent |-> <<req>>, into |-> none,
                   err |-> Errorf("failed to unmarshal response: " \o JSONSyntaxError)]
             ELSE [sent |-> <<req>>, err |-> NilErr,
                   into |-> [filled |-> env.body.kind = "entity", obj |-> env.body.obj]]
        ELSE [sent |-> <<req>>, into |-> none, err |-> NilErr]

(* A Domain Operation's return: the destination it declared (zero, or      *)
(* decoded when doRequest filled it) and doRequest's error.                *)
Returned(r, result) == [sent |-> r.sent, err |-> r.err, result |-> result]

-----------------------------------------------------------------------------
(* The remote's possible answers.                                          *)

(* HTTP statuses the remote answers with: OK, Found, Not Found. *)
Statuses == {200, 302, 404}

(* Error payloads a lifecycle call may meet (the flat and the nested shape). *)
FlatErrorObj == [type |-> "not_found_error", message |-> "not found", hasError |-> FALSE,
                 error |-> [type |-> "", message |-> ""]]
NestedErrorObj == [type |-> "error", message |-> "", hasError |-> TRUE,
                   error |-> [type |-> "invalid_request_error", message |-> "bad request"]]

(* Every answer with a status of statuses whose JSON entity, if any, is    *)
(* drawn from objs: a failure                                              *)
(* of the exchange, a status below 400 with an empty body, a body that is  *)
(* not JSON or an entity, or a status of 400 or more with an error payload *)
(* or a body that is not JSON.                                             *)
Answers(statuses, objs) ==
    {TransportFailure, ReadFailure}
    \cup {HTTPResponse(s, b) :
            s \in {t \in statuses : t < StatusBadRequest},
            b \in {EmptyBody, GarbageBody} \cup {EntityBody(o) : o \in objs}}
    \cup {HTTPResponse(s, b) :
            s \in {t \in statuses : t >= StatusBadRequest},
            b \in {GarbageBody, ErrorBody(FlatErrorObj), ErrorBody(NestedErrorObj)}}

NoAnswer == [net |-> "none", status |-> 0, body |-> EmptyBody]

(* The saved state of a resource instance: its attributes, and whether the *)
(* host holds a state for the instance at all.                             *)
Absent(attrs) == [a \in attrs \cup {"present"} |-> IF a = "present" THEN FALSE ELSE Null]

(* stringplanmodifier.UseStateForUnknown: the planned value of a computed  *)
(* attribute is the prior state's value, unless that is null.              *)
UseStateForUnknown(stateValue) == IF IsNull(stateValue) THEN Unknown ELSE stateValue

(* resource.ImportStatePassthroughID: the import id becomes the attribute  *)
(* at path.Root("id"); every other attribute stays null.                   *)
ImportStatePassthroughID(attrs, id) ==
    [a \in attrs \cup {"present"} |->
        IF a = "present" THEN TRUE ELSE IF a = "id" THEN StringValue(id) ELSE Null]

-----------------------------------------------------------------------------
(* client.go: Workspace operations.                                        *)

MethodGet == "GET"
MethodPost == "POST"
MethodDelete == "DELETE"

ZeroWorkspace == [ID |-> "", Name |-> "", CreatedAt |-> "", ArchivedAt |-> "", DisplayName |-> ""]
UnmarshalWorkspace(obj) ==
    [ID |-> obj.id, Name |-> obj.name, CreatedAt |-> obj.created_at,
     ArchivedAt |-> obj.archived_at, DisplayName |-> obj.display_name]

GetWorkspaceRetrying(c, workspaceID, env) ==
    LET r == doRequest(c, MethodGet, "/v1/organizations/workspaces/" \o workspaceID, NilBody,
                       TRUE, env)
    IN  Returned([r EXCEPT !.sent = IF r.err.nil THEN @ ELSE @ \o @],
                 IF r.into.filled THEN UnmarshalWorkspace(r.into.obj) ELSE ZeroWorkspace)

GetWorkspace(c, workspaceID, env) ==
    LET r == doRequest(c, MethodGet, "/v1/organizations/workspaces/" \o workspaceID, NilBody,
                       TRUE, env)
    IN  Returned(r, IF r.into.filled THEN UnmarshalWorkspace(r.into.obj) ELSE ZeroWorkspace)

CreateWorkspace(c, req, env) ==
    LET r == doRequest(c, MethodPost, "/v1/organizations/workspaces",
              JSONBody(Marshal([name |-> req.Name], {})),
                       TRUE, env)
    IN  Returned(r, IF r.into.filled THEN UnmarshalWorkspace(r.into.obj) ELSE ZeroWorkspace)

UpdateWorkspace(c, workspaceID, req, env) ==
    LET r == doRequest(c, MethodPost, "/v1/organizations/workspaces/" \o workspaceID,
              JSONBody(Marshal([name |-> req.Name], {})),
                       TRUE, env)
    IN  Returned(r, IF r.into.filled THEN UnmarshalWorkspace(r.into.obj) ELSE ZeroWorkspace)

ArchiveWorkspaceByDelete(c, workspaceID, env) ==
    LET r == doRequest(c, MethodDelete, "/v1/organizations/workspaces/" \o workspaceID, NilBody,
                       TRUE, env)
    IN  Returned(r, IF r.into.filled THEN UnmarshalWorkspace(r.into.obj) ELSE ZeroWorkspace)

ArchiveWorkspace(c, workspaceID, env) ==
    LET r == doRequest(c, MethodPost, "/v1/organizations/workspaces/" \o workspaceID \o "/archive", NilBody,
                       TRUE, env)
    IN  Returned(r, IF r.into.filled THEN UnmarshalWorkspace(r.into.obj) ELSE ZeroWorkspace)

-----------------------------------------------------------------------------
(* workspace_resource.go: WorkspaceResource.                               *)

WorkspaceAttrs == {"id", "name", "display_name", "created_at", "archived_at"}
WorkspaceIDs == {"wrkspc_1", "wrkspc_2"}
WorkspaceNames == {"prod", "dev"}
WorkspaceObj(id, name, archivedAt) ==
    [id |-> id, name |-> name, created_at |-> "2024-01-01",
     archived_at |-> archivedAt, display_name |-> "Prod"]
WorkspaceObjs ==
    {WorkspaceObj("wrkspc_1", "prod", ""), WorkspaceObj("wrkspc_1", "dev", "2024-06-01"),
     WorkspaceObj("wrkspc_2", "prod", "2024-06-01"), WorkspaceObj("wrkspc_2", "dev", "")}
WorkspaceAnswers == Answers(Statuses, WorkspaceObjs)

(* The plan the host hands to Create and Update: name from the             *)
(* configuration, id and created_at by UseStateForUnknown, the other       *)
(* computed attributes unknown.                                            *)
WorkspacePlan(state, name) ==
    [present |-> TRUE, id |-> UseStateForUnknown(state.id), name |-> StringValue(name),
     display_name |-> Unknown, created_at |-> UseStateForUnknown(state.created_at),
     archived_at |-> Unknown]

(* Each handler returns what it leaves behind: the state the host saves    *)
(* (the prior state when resp.State was not set), the diagnostics and the  *)
(* requests issued.                                                        *)
WorkspaceCreate(c, plan, prior, env) ==
    LET r == CreateWorkspace(c, [Name |-> ValueString(plan.name)], env)
        workspace == r.result
    IN  IF ~r.err.nil
        THEN [state |-> prior, sent |-> r.sent,
              diags |-> <<Diag("Client Error", "Unable to create workspace: " \o r.err.msg)>>]
        ELSE [state |-> [plan EXCEPT
                  !.id = StringValue(workspace.ID),
                  !.name = StringValue(workspace.Name),
                  !.display_name = StringValue(workspace.DisplayName),
                  !.created_at = StringValue(workspace.CreatedAt),
                  !.archived_at = IF workspace.ArchivedAt # ""
                                  THEN StringValue(workspace.ArchivedAt) ELSE Null],
              sent |-> r.sent, diags |-> <<>>]

WorkspaceReadKeepingEmptyArchivedAt(c, prior, env) ==
    LET r == GetWorkspace(c, ValueString(prior.id), env)
        workspace == r.result
    IN  IF ~r.err.nil
        THEN [state |-> prior, sent |-> r.sent,
              diags |-> <<Diag("Client Error", "Unable to read workspace: " \o r.err.msg)>>]
        ELSE [state |-> [prior EXCEPT
                  !.name = StringValue(workspace.Name),
                  !.display_name = StringValue(workspace.DisplayName),
                  !.created_at = StringValue(workspace.CreatedAt),
                  !.archived_at = StringValue(workspace.ArchivedAt)],
              sent |-> r.sent, diags |-> <<>>]

WorkspaceReadDroppingArchivedAt(c, prior, env) ==
    LET r == GetWorkspace(c, ValueString(prior.id), env)
        workspace == r.result
    IN  IF ~r.err.nil
        THEN [state |-> prior, sent |-> r.sent,
              diags |-> <<Diag("Client Error", "Unable to read workspace: " \o r.err.msg)>>]
        ELSE [state |-> [prior EXCEPT
                  !.name = StringValue(workspace.Name),
                  !.display_name = StringValue(workspace.DisplayName),
                  !.created_at = StringValue(workspace.CreatedAt),
                  !.archived_at = Null],
              sent |-> r.sent, diags |-> <<>>]

WorkspaceRead(c, prior, env) ==
    LET r == GetWorkspace(c, ValueString(prior.id), env)
        workspace == r.result
    IN  IF ~r.err.nil
        THEN [state |-> prior, sent |-> r.sent,
              diags |-> <<Diag("Client Error", "Unable to read workspace: " \o r.err.msg)>>]
        ELSE [state |-> [prior EXCEPT
                  !.name = StringValue(workspace.Name),
                  !.display_name = StringValue(workspace.DisplayName),
                  !.created_at = StringValue(workspace.CreatedAt),
                  !.archived_at = IF workspace.ArchivedAt # ""
                                  THEN StringValue(workspace.ArchivedAt) ELSE Null],
              sent |-> r.sent, diags |-> <<>>]

WorkspaceUpdateStoringRemoteID(c, plan, prior, env) ==
    LET r == UpdateWorkspace(c, ValueString(plan.id), [Name |-> ValueString(plan.name)], env)
        workspace == r.result
    IN  IF ~r.err.nil
        THEN [state |-> prior, sent |-> r.sent,
              diags |-> <<Diag("Client Error", "Unable to update workspace: " \o r.err.msg)>>]
        ELSE [state |-> [plan EXCEPT
                  !.id = StringValue(workspace.ID),
                  !.name = StringValue(workspace.Name),
                  !.display_name = StringValue(workspace.DisplayName),
                  !.archived_at = IF workspace.ArchivedAt # ""
                                  THEN StringValue(workspace.ArchivedAt) ELSE Null],
              sent |-> r.sent, diags |-> <<>>]

WorkspaceUpdate(c, plan, prior, env) ==
    LET r == UpdateWorkspace(c, ValueString(plan.id), [Name |-> ValueString(plan.name)], env)
        workspace == r.result
    IN  IF ~r.err.nil
        THEN [state |-> prior, sent |-> r.sent,
              diags |-> <<Diag("Client Error", "Unable to update workspace: " \o r.err.msg)>>]
        ELSE [state |-> [plan EXCEPT
                  !.name = StringValue(workspace.Name),
                  !.display_name = StringValue(workspace.DisplayName),
                  !.archived_at = IF workspace.ArchivedAt # ""
                                  THEN StringValue(workspace.ArchivedAt) ELSE Null],
              sent |-> r.sent, diags |-> <<>>]

(* Delete sets no state; the host drops the instance when Delete reports   *)
(* no error.                                                               *)
WorkspaceDelete(c, prior, env) ==
    LET r == ArchiveWorkspace(c, ValueString(prior.id), env)
    IN  IF ~r.err.nil
        THEN [state |-> prior, sent |-> r.sent,
              diags |-> <<Diag("Client Error", "Unable to archive workspace: " \o r.err.msg)>>]
        ELSE [state |-> Absent(WorkspaceAttrs), sent |-> r.sent, diags |-> <<>>]

WorkspaceImportState(id) ==
    [state |-> ImportStatePassthroughID(WorkspaceAttrs, id), sent |-> <<>>, diags |-> <<>>]

(* The lifecycle calls the host makes on the workspace instance. *)
Call(op, plan, prior, env) == [op |-> op, plan |-> plan, prior |-> prior, env |-> env]
Idle == Call("none", NoFields, NoFields, NoAnswer)

WorkspaceResource_Create ==
    /\ ~ws.present
    /\ \E name \in WorkspaceNames, env \in WorkspaceAnswers :
        \E plan \in {WorkspacePlan(ws, name)} : \E out \in {WorkspaceCreate(client, plan, ws, env)} :
            /\ ws' = out.state /\ sent' = out.sent /\ diags' = out.diags
            /\ call' = Call("Workspace.Create", plan, ws, env)
    /\ UNCHANGED <<remote, client, ak, wm, inv, ds, errq, item, flight>>

WorkspaceResource_Read ==
    /\ ws.present
    /\ \E env \in WorkspaceAnswers :
        \E out \in {WorkspaceRead(client, ws, env)} :
            /\ ws' = out.state /\ sent' = out.sent /\ diags' = out.diags
            /\ call' = Call("Workspace.Read", ws, ws, env)
    /\ UNCHANGED <<remote, client, ak, wm, inv, ds, errq, item, flight>>

WorkspaceResource_Update ==
    /\ ws.present
    /\ \E name \in WorkspaceNames, env \in WorkspaceAnswers :
        \E plan \in {WorkspacePlan(ws, name)} : \E out \in {WorkspaceUpdate(client, plan, ws, env)} :
            /\ ws' = out.state /\ sent' = out.sent /\ diags' = out.diags
            /\ call' = Call("Workspace.Update", plan, ws, env)
    /\ UNCHANGED <<remote, client, ak, wm, inv, ds, errq, item, flight>>

WorkspaceResource_Delete ==
    /\ ws.present
    /\ \E env \in WorkspaceAnswers :
        \E out \in {WorkspaceDelete(client, ws, env)} :
            /\ ws' = out.state /\ sent' = out.sent /\ diags' = out.diags
            /\ call' = Call("Workspace.Delete", ws, ws, env)
    /\ UNCHANGED <<remote, client, ak, wm, inv, ds, errq, item, flight>>

WorkspaceResource_ImportState ==
    /\ ~ws.present
    /\ \E id \in WorkspaceIDs :
        \E out \in {WorkspaceImportState(id)} :
            /\ ws' = out.state /\ sent' = out.sent /\ diags' = out.diags
            /\ call' = Call("Workspace.ImportState", ws, ws, NoAnswer)
    /\ UNCHANGED <<remote, client, ak, wm, inv, ds, errq, item, flight>>

-----------------------------------------------------------------------------
(* client.go: API Key operations.                                          *)

ZeroAPIKey ==
    [ID |-> "", Name |-> "", Hint |-> "", CreatedAt |-> "", Status |-> "",
     WorkspaceID |-> "", Key |-> ""]
UnmarshalAPIKey(obj) ==
    [ID |-> obj.id, Name |-> obj.name, Hint |-> obj.hint, CreatedAt |-> obj.created_at,
     Status |-> obj.status, WorkspaceID |-> obj.workspace_id, Key |-> obj.key]

(* UpdateAPIKeyRequest: both members are tagged omitempty. *)
UpdateAPIKeyRequest(name, status) == [Name |-> name, Status |-> status]
MarshalUpdateAPIKeyRequest(req) ==
    Marshal([name |-> req.Name, status |-> req.Status], {"name", "status"})

GetAPIKey(c, apiKeyID, env) ==
    LET r == doRequest(c, MethodGet, "/v1/organizations/api_keys/" \o apiKeyID, NilBody,
                       TRUE, env)
    IN  Returned(r, IF r.into.filled THEN UnmarshalAPIKey(r.into.obj) ELSE ZeroAPIKey)

CreateAPIKey(c, req, env) ==
    LET r == doRequest(c, MethodPost, "/v1/organizations/api_keys",
              JSONBody(Marshal([name |-> req.Name, workspace_id |-> req.WorkspaceID],
                               {"workspace_id"})),
                       TRUE, env)
    IN  Returned(r, IF r.into.filled THEN UnmarshalAPIKey(r.into.obj) ELSE ZeroAPIKey)

UpdateAPIKey(c, apiKeyID, req, env) ==
    LET r == doRequest(c, MethodPost, "/v1/organizations/api_keys/" \o apiKeyID,
              JSONBody(MarshalUpdateAPIKeyRequest(req)),
                       TRUE, env)
    IN  Returned(r, IF r.into.filled THEN UnmarshalAPIKey(r.into.obj) ELSE ZeroAPIKey)

DeleteAPIKeyByDelete(c, apiKeyID, env) ==
    LET r == doRequest(c, MethodDelete, "/v1/organizations/api_keys/" \o apiKeyID, NilBody,
                       FALSE, env)
    IN  Returned(r, IF r.into.filled THEN UnmarshalAPIKey(r.into.obj) ELSE ZeroAPIKey)

DeleteAPIKey(c, apiKeyID, env) ==
    UpdateAPIKey(c, apiKeyID, UpdateAPIKeyRequest("", "archived"), env)

-----------------------------------------------------------------------------
(* api_key_resource.go: APIKeyResource.                                    *)

APIKeyAttrs == {"id", "name", "workspace_id", "status", "hint", "key", "created_at"}
APIKeyIDs == {"apikey_1", "apikey_2"}
APIKeyObj(id, name, status, workspaceID, key) ==
    [id |-> id, name |-> name, hint |-> "AbCd", created_at |-> "2024-02-02",
     status |-> status, workspace_id |-> workspaceID, key |-> key]
APIKeyObjs ==
    {APIKeyObj("apikey_1", "ci", "active", "", "sk-ant-api-1"),
     APIKeyObj("apikey_1", "ci", "inactive", "wrkspc_1", ""),
     APIKeyObj("apikey_2", "cd", "active", "wrkspc_2", "sk-ant-api-2")}
APIKeyAnswers == Answers({200, 404}, APIKeyObjs)

(* What the configuration can hold: name is required (any string),         *)
(* workspace_id and status are optional.  A planned status is the          *)
(* configured one, or unknown or null when the configuration sets none.    *)
APIKeyConfigNames == {"ci", ""}
APIKeyConfigWorkspaces == {Null, StringValue("wrkspc_1")}
APIKeyPlanStatuses == {Null, Unknown, StringValue("active"), StringValue("")}

(* The plan for Create (no prior state) and Update: id, key and created_at *)
(* by UseStateForUnknown, hint unknown, workspace_id as configured (a      *)
(* change of it replaces the instance, so Update sees the state's value).  *)
APIKeyPlan(state, name, workspaceID, status) ==
    [present |-> TRUE, id |-> UseStateForUnknown(state.id), name |-> StringValue(name),
     workspace_id |-> workspaceID, status |-> status, hint |-> Unknown,
     key |-> UseStateForUnknown(state.key),
     created_at |-> UseStateForUnknown(state.created_at)]

APIKeyCreate(c, plan, prior, env) ==
    LET r == CreateAPIKey(c, [Name |-> ValueString(plan.name),
                              WorkspaceID |-> IF ~IsNull(plan.workspace_id)
                                              THEN ValueString(plan.workspace_id) ELSE ""], env)
        apiKey == r.result
    IN  IF ~r.err.nil
        THEN [state |-> prior, sent |-> r.sent,
              diags |-> <<Diag("Client Error", "Unable to create API key: " \o r.err.msg)>>]
        ELSE [state |-> [plan EXCEPT
                  !.id = StringValue(apiKey.ID),
                  !.name = StringValue(apiKey.Name),
                  !.status = StringValue(apiKey.Status),
                  !.hint = StringValue(apiKey.Hint),
                  !.created_at = StringValue(apiKey.CreatedAt),
                  !.key = IF apiKey.Key # "" THEN StringValue(apiKey.Key) ELSE Null,
                  !.workspace_id = IF apiKey.WorkspaceID # ""
                                   THEN StringValue(apiKey.WorkspaceID) ELSE @],
              sent |-> r.sent, diags |-> <<>>]

APIKeyReadRefreshingKey(c, prior, env) ==
    LET r == GetAPIKey(c, ValueString(prior.id), env)
        apiKey == r.result
    IN  IF ~r.err.nil
        THEN [state |-> prior, sent |-> r.sent,
              diags |-> <<Diag("Client Error", "Unable to read API key: " \o r.err.msg)>>]
        ELSE [state |-> [prior EXCEPT
                  !.name = StringValue(apiKey.Name),
                  !.status = StringValue(apiKey.Status),
                  !.hint = StringValue(apiKey.Hint),
                  !.created_at = StringValue(apiKey.CreatedAt),
                  !.key = IF apiKey.Key # "" THEN StringValue(apiKey.Key) ELSE Null,
                  !.workspace_id = IF apiKey.WorkspaceID # ""
                                   THEN StringValue(apiKey.WorkspaceID) ELSE @],
              sent |-> r.sent, diags |-> <<>>]

APIKeyRead(c, prior, env) ==
    LET r == GetAPIKey(c, ValueString(prior.id), env)
        apiKey == r.result
    IN  IF ~r.err.nil
        THEN [state |-> prior, sent |-> r.sent,
              diags |-> <<Diag("Client Error", "Unable to read API key: " \o r.err.msg)>>]
        ELSE [state |-> [prior EXCEPT
                  !.name = StringValue(apiKey.Name),
                  !.status = StringValue(apiKey.Status),
                  !.hint = StringValue(apiKey.Hint),
                  !.created_at = StringValue(apiKey.CreatedAt),
                  !.workspace_id = IF apiKey.WorkspaceID # ""
                                   THEN StringValue(apiKey.WorkspaceID) ELSE @],
              sent |-> r.sent, diags |-> <<>>]

APIKeyUpdateRequestFull(data, state) ==
    UpdateAPIKeyRequest(ValueString(data.name), ValueString(data.status))

(* The differential request of Update: data is the plan, state the prior state. *)
APIKeyUpdateRequest(data, state) ==
    UpdateAPIKeyRequest(
        IF data.name # state.name THEN ValueString(data.name) ELSE "",
        IF data.status # state.status /\ ~IsNull(data.status)
        THEN ValueString(data.status) ELSE "")

APIKeyUpdateSavingPlanOnError(c, plan, prior, env) ==
    LET r == UpdateAPIKey(c, ValueString(plan.id), APIKeyUpdateRequest(plan, prior), env)
        apiKey == r.result
    IN  [state |-> IF ~r.err.nil THEN [plan EXCEPT !.key = prior.key]
                   ELSE [plan EXCEPT
                            !.name = StringValue(apiKey.Name),
                            !.status = StringValue(apiKey.Status),
                            !.hint = StringValue(apiKey.Hint),
                            !.key = prior.key],
         sent |-> r.sent,
         diags |-> IF ~r.err.nil
                   THEN <<Diag("Client Error", "Unable to update API key: " \o r.err.msg)>>
                   ELSE <<>>]

APIKeyUpdateRefreshingWorkspace(c, plan, prior, env) ==
    LET r == UpdateAPIKey(c, ValueString(plan.id), APIKeyUpdateRequest(plan, prior), env)
        apiKey == r.result
    IN  IF ~r.err.nil
        THEN [state |-> prior, sent |-> r.sent,
              diags |-> <<Diag("Client Error", "Unable to update API key: " \o r.err.msg)>>]
        ELSE [state |-> [plan EXCEPT
                  !.name = StringValue(apiKey.Name),
                  !.status = StringValue(apiKey.Status),
                  !.hint = StringValue(apiKey.Hint),
                  !.workspace_id = IF apiKey.WorkspaceID # ""
                                   THEN StringValue(apiKey.WorkspaceID) ELSE @,
                  !.key = prior.key],
              sent |-> r.sent, diags |-> <<>>]

APIKeyUpdate(c, plan, prior, env) ==
    LET r == UpdateAPIKey(c, ValueString(plan.id), APIKeyUpdateRequest(plan, prior), env)
        apiKey == r.result
    IN  IF ~r.err.nil
        THEN [state |-> prior, sent |-> r.sent,
              diags |-> <<Diag("Client Error", "Unable to update API key: " \o r.err.msg)>>]
        ELSE [state |-> [plan EXCEPT
                  !.name = StringValue(apiKey.Name),
                  !.status = StringValue(apiKey.Status),
                  !.hint = StringValue(apiKey.Hint),
                  !.key = prior.key],
              sent |-> r.sent, diags |-> <<>>]

APIKeyDelete(c, prior, env) ==
    LET r == DeleteAPIKey(c, ValueString(prior.id), env)
    IN  IF ~r.err.nil
        THEN [state |-> prior, sent |-> r.sent,
              diags |-> <<Diag("Client Error", "Unable to delete API key: " \o r.err.msg)>>]
        ELSE [state |-> Absent(APIKeyAttrs), sent |-> r.sent, diags |-> <<>>]

APIKeyImportState(id) ==
    [state |-> ImportStatePassthroughID(APIKeyAttrs, id), sent |-> <<>>, diags |-> <<>>]

APIKeyResource_Create ==
    /\ ~ak.present
    /\ \E name \in APIKeyConfigNames, w \in APIKeyConfigWorkspaces,
          st \in APIKeyPlanStatuses \ {Null}, env \in APIKeyAnswers :
        \E plan \in {APIKeyPlan(ak, name, w, st)} : \E out \in {APIKeyCreate(client, plan, ak, env)} :
            /\ ak' = out.state /\ sent' = out.sent /\ diags' = out.diags
            /\ call' = Call("APIKey.Create", plan, ak, env)
    /\ UNCHANGED <<remote, client, ws, wm, inv, ds, errq, item, flight>>

APIKeyResource_Read ==
    /\ ak.present
    /\ \E env \in APIKeyAnswers :
        \E out \in {APIKeyRead(client, ak, env)} :
            /\ ak' = out.state /\ sent' = out.sent /\ diags' = out.diags
            /\ call' = Call("APIKey.Read", ak, ak, env)
    /\ UNCHANGED <<remote, client, ws, wm, inv, ds, errq, item, flight>>

APIKeyResource_Update ==
    /\ ak.present
    /\ \E name \in APIKeyConfigNames, st \in APIKeyPlanStatuses, env \in APIKeyAnswers :
        \E plan \in {APIKeyPlan(ak, name, ak.workspace_id, st)} : \E out \in {APIKeyUpdate(client, plan, ak, env)} :
            /\ ak' = out.state /\ sent' = out.sent /\ diags' = out.diags
            /\ call' = Call("APIKey.Update", plan, ak, env)
    /\ UNCHANGED <<remote, client, ws, wm, inv, ds, errq, item, flight>>

APIKeyResource_Delete ==
    /\ ak.present
    /\ \E env \in APIKeyAnswers :
        \E out \in {APIKeyDelete(client, ak, env)} :
            /\ ak' = out.state /\ sent' = out.sent /\ diags' = out.diags
            /\ call' = Call("APIKey.Delete", ak, ak, env)
    /\ UNCHANGED <<remote, client, ws, wm, inv, ds, errq, item, flight>>

APIKeyResource_ImportState ==
    /\ ~ak.present
    /\ \E id \in APIKeyIDs :
        \E out \in {APIKeyImportState(id)} :
            /\ ak' = out.state /\ sent' = out.sent /\ diags' = out.diags
            /\ call' = Call("APIKey.ImportState", ak, ak, NoAnswer)
    /\ UNCHANGED <<remote, client, ws, wm, inv, ds, errq, item, flight>>

-----------------------------------------------------------------------------
(* client.go: Invite operations.                                           *)

ZeroInvite ==
    [ID |-> "", Email |-> "", Role |-> "", Status |-> "", CreatedAt |-> "",
     ExpiresAt |-> "", InviterID |-> ""]
UnmarshalInvite(obj) ==
    [ID |-> obj.id, Email |-> obj.email, Role |-> obj.role, Status |-> obj.status,
     CreatedAt |-> obj.created_at, ExpiresAt |-> obj.expires_at, InviterID |-> obj.inviter_id]

GetInvite(c, inviteID, env) ==
    LET r == doRequest(c, MethodGet, "/v1/organizations/invites/" \o inviteID, NilBody,
                       TRUE, env)
    IN  Returned(r, IF r.into.filled THEN UnmarshalInvite(r.into.obj) ELSE ZeroInvite)

CreateInvite(c, req, env) ==
    LET r == doRequest(c, MethodPost, "/v1/organizations/invites",
                       JSONBody(Marshal([email |-> req.Email, role |-> req.Role], {})),
                       TRUE, env)
    IN  Returned(r, IF r.into.filled THEN UnmarshalInvite(r.into.obj) ELSE ZeroInvite)

DeleteInvite(c, inviteID, env) ==
    LET r == doRequest(c, MethodDelete, "/v1/organizations/invites/" \o inviteID, NilBody,
                       FALSE, env)
    IN  Returned(r, ZeroInvite)

-----------------------------------------------------------------------------
(* invite_resource.go: InviteResource.                                     *)

InviteAttrs == {"id", "email", "role", "status", "created_at", "expires_at", "inviter_id"}
InviteIDs == {"invite_1", "invite_2"}
InviteEmails == {"dev@example.com", "ops@example.com"}
InviteRoles == {"user", "developer"}
InviteObj(id, email, role, status, inviterID) ==
    [id |-> id, email |-> email, role |-> role, status |-> status,
     created_at |-> "2024-03-03", expires_at |-> "2024-03-24", inviter_id |-> inviterID]
InviteObjs ==
    {InviteObj("invite_1", "dev@example.com", "developer", "pending", "user_9"),
     InviteObj("invite_1", "dev@example.com", "developer", "accepted", ""),
     InviteObj("invite_2", "ops@example.com", "user", "pending", "")}
InviteAnswers == Answers({200, 404}, InviteObjs)

(* The plan: email and role from the configuration; id, created_at and     *)
(* inviter_id by UseStateForUnknown; status and expires_at unknown.        *)
InvitePlan(state, email, role) ==
    [present |-> TRUE, id |-> UseStateForUnknown(state.id), email |-> StringValue(email),
     role |-> StringValue(role), status |-> Unknown,
     created_at |-> UseStateForUnknown(state.created_at), expires_at |-> Unknown,
     inviter_id |-> UseStateForUnknown(state.inviter_id)]

InviteCreate(c, plan, prior, env) ==
    LET r == CreateInvite(c, [Email |-> ValueString(plan.email), Role |-> ValueString(plan.role)], env)
        invite == r.result
    IN  IF ~r.err.nil
        THEN [state |-> prior, sent |-> r.sent,
              diags |-> <<Diag("Client Error", "Unable to create invite: " \o r.err.msg)>>]
        ELSE [state |-> [plan EXCEPT
                  !.id = StringValue(invite.ID),
                  !.email = StringValue(invite.Email),
                  !.role = StringValue(invite.Role),
                  !.status = StringValue(invite.Status),
                  !.created_at = StringValue(invite.CreatedAt),
                  !.expires_at = StringValue(invite.ExpiresAt),
                  !.inviter_id = IF invite.InviterID # ""
                                 THEN StringValue(invite.InviterID) ELSE Null],
              sent |-> r.sent, diags |-> <<>>]

InviteReadRemovingGone(c, prior, env) ==
    LET r == GetInvite(c, ValueString(prior.id), env)
        invite == r.result
    IN  IF ~r.err.nil
        THEN [state |-> IF r.sent # <<>> /\ env.net = "ok" /\ env.status = 404
                        THEN Absent(InviteAttrs) ELSE prior,
              sent |-> r.sent,
              diags |-> <<Diag("Client Error", "Unable to read invite: " \o r.err.msg)>>]
        ELSE [state |-> [prior EXCEPT
                  !.email = StringValue(invite.Email),
                  !.role = StringValue(invite.Role),
                  !.status = StringValue(invite.Status),
                  !.expires_at = StringValue(invite.ExpiresAt),
                  !.inviter_id = IF invite.InviterID # ""
                                 THEN StringValue(invite.InviterID) ELSE @],
              sent |-> r.sent, diags |-> <<>>]

InviteRead(c, prior, env) ==
    LET r == GetInvite(c, ValueString(prior.id), env)
        invite == r.result
    IN  IF ~r.err.nil
        THEN [state |-> prior, sent |-> r.sent,
              diags |-> <<Diag("Client Error", "Unable to read invite: " \o r.err.msg)>>]
        ELSE [state |-> [prior EXCEPT
                  !.email = StringValue(invite.Email),
                  !.role = StringValue(invite.Role),
                  !.status = StringValue(invite.Status),
                  !.expires_at = StringValue(invite.ExpiresAt),
                  !.inviter_id = IF invite.InviterID # ""
                                 THEN StringValue(invite.InviterID) ELSE @],
              sent |-> r.sent, diags |-> <<>>]

InviteUpdateInPlace(c, plan, prior) ==
    [state |-> plan, sent |-> <<>>, diags |-> <<>>]

(* Update reports an error and does nothing else: resp.State keeps the     *)
(* prior state.                                                            *)
InviteUpdate(c, plan, prior) ==
    [state |-> prior, sent |-> <<>>,
     diags |-> <<Diag("Update Not Supported",
                      "Invites cannot be updated. Delete and recreate the invite with the new settings.")>>]

InviteDelete(c, prior, env) ==
    LET r == DeleteInvite(c, ValueString(prior.id), env)
    IN  IF ~r.err.nil
        THEN [state |-> prior, sent |-> r.sent,
              diags |-> <<Diag("Client Error", "Unable to delete invite: " \o r.err.msg)>>]
        ELSE [state |-> Absent(InviteAttrs), sent |-> r.sent, diags |-> <<>>]

InviteImportState(id) ==
    [state |-> ImportStatePassthroughID(InviteAttrs, id), sent |-> <<>>, diags |-> <<>>]

InviteResource_Create ==
    /\ ~inv.present
    /\ \E email \in InviteEmails, role \in InviteRoles, env \in InviteAnswers :
        \E plan \in {InvitePlan(inv, email, role)} : \E out \in {InviteCreate(client, plan, inv, env)} :
            /\ inv' = out.state /\ sent' = out.sent /\ diags' = out.diags
            /\ call' = Call("Invite.Create", plan, inv, env)
    /\ UNCHANGED <<remote, client, ws, ak, wm, ds, errq, item, flight>>

InviteResource_Read ==
    /\ inv.present
    /\ \E env \in InviteAnswers :
        \E out \in {InviteRead(client, inv, env)} :
            /\ inv' = out.state /\ sent' = out.sent /\ diags' = out.diags
            /\ call' = Call("Invite.Read", inv, inv, env)
    /\ UNCHANGED <<remote, client, ws, ak, wm, ds, errq, item, flight>>

InviteResource_Update ==
    /\ inv.present
    /\ \E email \in InviteEmails, role \in InviteRoles :
        \E plan \in {InvitePlan(inv, email, role)} : \E out \in {InviteUpdate(client, plan, inv)} :
            /\ inv' = out.state /\ sent' = out.sent /\ diags' = out.diags
            /\ call' = Call("Invite.Update", plan, inv, NoAnswer)
    /\ UNCHANGED <<remote, client, ws, ak, wm, ds, errq, item, flight>>

InviteResource_Delete ==
    /\ inv.present
    /\ \E env \in InviteAnswers :
        \E out \in {InviteDelete(client, inv, env)} :
            /\ inv' = out.state /\ sent' = out.sent /\ diags' = out.diags
            /\ call' = Call("Invite.Delete", inv, inv, env)
    /\ UNCHANGED <<remote, client, ws, ak, wm, ds, errq, item, flight>>

InviteResource_ImportState ==
    /\ ~inv.present
    /\ \E id \in InviteIDs :
        \E out \in {InviteImportState(id)} :
            /\ inv' = out.state /\ sent' = out.sent /\ diags' = out.diags
            /\ call' = Call("Invite.ImportState", inv, inv, NoAnswer)
    /\ UNCHANGED <<remote, client, ws, ak, wm, ds, errq, item, flight>>

-----------------------------------------------------------------------------
(* client.go: Workspace Member operations.                                 *)

ZeroWorkspaceMember == [UserID |-> "", WorkspaceID |-> "", WorkspaceRole |-> ""]
UnmarshalWorkspaceMember(obj) ==
    [UserID |-> obj.user_id, WorkspaceID |-> obj.workspace_id,
     WorkspaceRole |-> obj.workspace_role]

MemberPath(workspaceID, userID) ==
    "/v1/organizations/workspaces/" \o workspaceID \o "/members/" \o userID

GetWorkspaceMember(c, workspaceID, userID, env) ==
    LET r == doRequest(c, MethodGet, MemberPath(workspaceID, userID), NilBody, TRUE, env)
    IN  Returned(r, IF r.into.filled THEN UnmarshalWorkspaceMember(r.into.obj)
                    ELSE ZeroWorkspaceMember)

AddWorkspaceMember(c, workspaceID, req, env) ==
    LET r == doRequest(c, MethodPost,
                       "/v1/organizations/workspaces/" \o workspaceID \o "/members",
                       JSONBody(Marshal([user_id |-> req.UserID,
                                         workspace_role |-> req.WorkspaceRole], {})),
                       TRUE, env)
    IN  Returned(r, IF r.into.filled THEN UnmarshalWorkspaceMember(r.into.obj)
                    ELSE ZeroWorkspaceMember)

UpdateWorkspaceMember(c, workspaceID, userID, req, env) ==
    LET r == doRequest(c, MethodPost, MemberPath(workspaceID, userID),
                       JSONBody(Marshal([workspace_role |-> req.WorkspaceRole], {})),
                       TRUE, env)
    IN  Returned(r, IF r.into.filled THEN UnmarshalWorkspaceMember(r.into.obj)
                    ELSE ZeroWorkspaceMember)

RemoveWorkspaceMember(c, workspaceID, userID, env) ==
    LET r == doRequest(c, MethodDelete, MemberPath(workspaceID, userID), NilBody, FALSE, env)
    IN  Returned(r, ZeroWorkspaceMember)

-----------------------------------------------------------------------------
(* client.go (second part): WorkspaceMemberResource.                       *)

MemberAttrs == {"id", "workspace_id", "user_id", "workspace_role"}
MemberWorkspaceIDs == {"wrkspc_abc123"}
MemberUserIDs == {"user_xyz789", "user_2"}
MemberRoles == {"workspace_user", "workspace_admin"}
MemberObj(workspaceID, userID, role) ==
    [workspace_id |-> workspaceID, user_id |-> userID, workspace_role |-> role]
MemberObjs ==
    {MemberObj("wrkspc_abc123", "user_xyz789", "workspace_user"),
     MemberObj("wrkspc_abc123", "user_xyz789", "workspace_admin"),
     MemberObj("wrkspc_abc123", "user_2", "workspace_user"),
     MemberObj("wrkspc_other", "", "workspace_admin")}
MemberAnswers == Answers({200, 404}, MemberObjs)

(* The plan: workspace_id, user_id and workspace_role from the             *)
(* configuration (the first two replace the instance when changed, so      *)
(* Update sees the state's values), id by UseStateForUnknown.              *)
MemberPlan(state, workspaceID, userID, role) ==
    [present |-> TRUE, id |-> UseStateForUnknown(state.id), workspace_id |-> workspaceID,
     user_id |-> userID, workspace_role |-> StringValue(role)]

MemberCreateIDFromUserFirst(c, plan, prior, env) ==
    LET r == AddWorkspaceMember(c, ValueString(plan.workspace_id),
                                [UserID |-> ValueString(plan.user_id),
                                 WorkspaceRole |-> ValueString(plan.workspace_role)], env)
        member == r.result
    IN  IF ~r.err.nil
        THEN [state |-> prior, sent |-> r.sent,
              diags |-> <<Diag("Client Error", "Unable to add workspace member: " \o r.err.msg)>>]
        ELSE [state |-> [plan EXCEPT
                  !.id = StringValue(member.UserID \o "/" \o member.WorkspaceID),
                  !.workspace_id = StringValue(member.WorkspaceID),
                  !.user_id = StringValue(member.UserID),
                  !.workspace_role = StringValue(member.WorkspaceRole)],
              sent |-> r.sent, diags |-> <<>>]

MemberCreate(c, plan, prior, env) ==
    LET r == AddWorkspaceMember(c, ValueString(plan.workspace_id),
                                [UserID |-> ValueString(plan.user_id),
                                 WorkspaceRole |-> ValueString(plan.workspace_role)], env)
        member == r.result
    IN  IF ~r.err.nil
        THEN [state |-> prior, sent |-> r.sent,
              diags |-> <<Diag("Client Error", "Unable to add workspace member: " \o r.err.msg)>>]
        ELSE [state |-> [plan EXCEPT
                  !.id = StringValue(member.WorkspaceID \o "/" \o member.UserID),
                  !.workspace_id = StringValue(member.WorkspaceID),
                  !.user_id = StringValue(member.UserID),
                  !.workspace_role = StringValue(member.WorkspaceRole)],
              sent |-> r.sent, diags |-> <<>>]

MemberRead(c, prior, env) ==
    LET r == GetWorkspaceMember(c, ValueString(prior.workspace_id), ValueString(prior.user_id), env)
        member == r.result
    IN  IF ~r.err.nil
        THEN [state |-> prior, sent |-> r.sent,
              diags |-> <<Diag("Client Error", "Unable to read workspace member: " \o r.err.msg)>>]
        ELSE [state |-> [prior EXCEPT !.workspace_role = StringValue(member.WorkspaceRole)],
              sent |-> r.sent, diags |-> <<>>]

MemberUpdateStoringRemoteUser(c, plan, prior, env) ==
    LET r == UpdateWorkspaceMember(c, ValueString(plan.workspace_id), ValueString(plan.user_id),
                                   [WorkspaceRole |-> ValueString(plan.workspace_role)], env)
        member == r.result
    IN  IF ~r.err.nil
        THEN [state |-> prior, sent |-> r.sent,
              diags |-> <<Diag("Client Error", "Unable to update workspace member: " \o r.err.msg)>>]
        ELSE [state |-> [plan EXCEPT !.workspace_role = StringValue(member.WorkspaceRole),
                                     !.user_id = StringValue(member.UserID)],
              sent |-> r.sent, diags |-> <<>>]

MemberUpdate(c, plan, prior, env) ==
    LET r == UpdateWorkspaceMember(c, ValueString(plan.workspace_id), ValueString(plan.user_id),
                                   [WorkspaceRole |-> ValueString(plan.workspace_role)], env)
        member == r.result
    IN  IF ~r.err.nil
        THEN [state |-> prior, sent |-> r.sent,
              diags |-> <<Diag("Client Error", "Unable to update workspace member: " \o r.err.msg)>>]
        ELSE [state |-> [plan EXCEPT !.workspace_role = StringValue(member.WorkspaceRole)],
              sent |-> r.sent, diags |-> <<>>]

MemberDelete(c, prior, env) ==
    LET r == RemoveWorkspaceMember(c, ValueString(prior.workspace_id), ValueString(prior.user_id), env)
    IN  IF ~r.err.nil
        THEN [state |-> prior, sent |-> r.sent,
              diags |-> <<Diag("Client Error", "Unable to remove workspace member: " \o r.err.msg)>>]
        ELSE [state |-> Absent(MemberAttrs), sent |-> r.sent, diags |-> <<>>]

(* An import id is a sequence of characters, so that it can be split.      *)
MaxImportIDLen == 4
ImportChars == {"w", "/"}
RECURSIVE SeqsUpTo(_, _)
SeqsUpTo(S, n) ==
    IF n = 0 THEN {<<>>}
    ELSE LET shorter == SeqsUpTo(S, n - 1)
         IN  shorter \cup {Append(q, x) : q \in {p \in shorter : Len(p) = n - 1}, x \in S}
ImportIDs == SeqsUpTo(ImportChars, MaxImportIDLen)

(* The Go string of a sequence of characters. *)
RECURSIVE Str(_)
Str(chars) == IF chars = <<>> THEN "" ELSE Head(chars) \o Str(Tail(chars))

(* strings.SplitN(s, sep, 2): cut at the first separator only. *)
SplitAtFirst(chars, sep) ==
    IF \E i \in 1..Len(chars) : chars[i] = sep
    THEN LET i == CHOOSE j \in 1..Len(chars) :
                    chars[j] = sep /\ \A k \in 1..(j - 1) : chars[k] # sep
         IN  <<SubSeq(chars, 1, i - 1), SubSeq(chars, i + 1, Len(chars))>>
    ELSE <<chars>>

(* strings.Split(s, sep) for a one-character separator: the substrings     *)
(* between the separators, one more than there are separators.             *)
RECURSIVE Split(_, _)
Split(chars, sep) ==
    IF \E i \in 1..Len(chars) : chars[i] = sep
    THEN LET i == CHOOSE j \in 1..Len(chars) :
                    chars[j] = sep /\ \A k \in 1..(j - 1) : chars[k] # sep
         IN  <<SubSeq(chars, 1, i - 1)>> \o Split(SubSeq(chars, i + 1, Len(chars)), sep)
    ELSE <<chars>>

(* ImportState sets three attributes with State.SetAttribute, leaving      *)
(* workspace_role null, or reports the format it expects and sets none.    *)
MemberImportState(prior, reqID) ==
    LET parts == Split(reqID, "/")
    IN  IF Len(parts) # 2
        THEN [state |-> prior, sent |-> <<>>,
              diags |-> <<Diag("Invalid Import ID",
                               "Expected import ID format: workspace_id/user_id, got: " \o Str(reqID))>>]
        ELSE [state |-> [present |-> TRUE, id |-> StringValue(Str(reqID)),
                         workspace_id |-> StringValue(Str(parts[1])),
                         user_id |-> StringValue(Str(parts[2])),
                         workspace_role |-> Null],
              sent |-> <<>>, diags |-> <<>>]

WorkspaceMemberResource_Create ==
    /\ ~wm.present
    /\ \E w \in MemberWorkspaceIDs, u \in MemberUserIDs, role \in MemberRoles, env \in MemberAnswers :
        \E plan \in {MemberPlan(wm, StringValue(w), StringValue(u), role)} :
        \E out \in {MemberCreate(client, plan, wm, env)} :
            /\ wm' = out.state /\ sent' = out.sent /\ diags' = out.diags
            /\ call' = Call("Member.Create", plan, wm, env)
    /\ UNCHANGED <<remote, client, ws, ak, inv, ds, errq, item, flight>>

WorkspaceMemberResource_Read ==
    /\ wm.present
    /\ \E env \in MemberAnswers :
        \E out \in {MemberRead(client, wm, env)} :
            /\ wm' = out.state /\ sent' = out.sent /\ diags' = out.diags
            /\ call' = Call("Member.Read", wm, wm, env)
    /\ UNCHANGED <<remote, client, ws, ak, inv, ds, errq, item, flight>>

WorkspaceMemberResource_Update ==
    /\ wm.present
    /\ \E role \in MemberRoles, env \in MemberAnswers :
        \E plan \in {MemberPlan(wm, wm.workspace_id, wm.user_id, role)} :
        \E out \in {MemberUpdate(client, plan, wm, env)} :
            /\ wm' = out.state /\ sent' = out.sent /\ diags' = out.diags
            /\ call' = Call("Member.Update", plan, wm, env)
    /\ UNCHANGED <<remote, client, ws, ak, inv, ds, errq, item, flight>>

WorkspaceMemberResource_Delete ==
    /\ wm.present
    /\ \E env \in MemberAnswers :
        \E out \in {MemberDelete(client, wm, env)} :
            /\ wm' = out.state /\ sent' = out.sent /\ diags' = out.diags
            /\ call' = Call("Member.Delete", wm, wm, env)
    /\ UNCHANGED <<remote, client, ws, ak, inv, ds, errq, item, flight>>

(* call.plan holds the import id as supplied. *)
WorkspaceMemberResource_ImportState ==
    /\ ~wm.present
    /\ \E reqID \in ImportIDs :
        \E out \in {MemberImportState(wm, reqID)} :
            /\ wm' = out.state /\ sent' = out.sent /\ diags' = out.diags
            /\ call' = Call("Member.ImportState", reqID, wm, NoAnswer)
    /\ UNCHANGED <<remote, client, ws, ak, inv, ds, errq, item, flight>>

-----------------------------------------------------------------------------
(* client.go: ListResponse, ListWorkspaces, ListAPIKeys.                   *)

(* A *string: nil, or a pointer to a string (which may be empty).  A JSON  *)
(* last_id that is absent or null decodes to nil.                          *)
NilPtr == [nil |-> TRUE, v |-> ""]
Ptr(s) == [nil |-> FALSE, v |-> s]

ZeroListResponse == [Data |-> <<>>, HasMore |-> FALSE, LastID |-> NilPtr]

(* The query string: the parameters in order, "?" before the first and "&" *)
(* between two.                                                            *)
RECURSIVE JoinParams(_)
JoinParams(params) ==
    IF Len(params) = 1 THEN params[1]
    ELSE params[1] \o "&" \o JoinParams(Tail(params))
WithQueryAlwaysMarked(path, params) ==
    IF Len(params) > 0 THEN path \o "?" \o JoinParams(params) ELSE path \o "?"

WithQuery(path, params) ==
    IF Len(params) > 0 THEN path \o "?" \o JoinParams(params) ELSE path
LimitParam(limit) == IF limit > 0 THEN <<"limit=" \o ToString(limit)>> ELSE <<>>
StringParam(name, value) == IF value # "" THEN <<name \o "=" \o value>> ELSE <<>>

UnmarshalWorkspaceList(obj) ==
    [Data |-> [i \in 1..Len(obj.data) |-> UnmarshalWorkspace(obj.data[i])],
     HasMore |-> obj.has_more, LastID |-> obj.last_id]

ListWorkspaces(c, limit, beforeID, afterID, env) ==
    LET params == LimitParam(limit) \o StringParam("before_id", beforeID)
                  \o StringParam("after_id", afterID)
        r == doRequest(c, MethodGet, WithQuery("/v1/organizations/workspaces", params),
                       NilBody, TRUE, env)
    IN  Returned(r, IF r.into.filled THEN UnmarshalWorkspaceList(r.into.obj)
                    ELSE ZeroListResponse)

UnmarshalAPIKeyList(obj) ==
    [Data |-> [i \in 1..Len(obj.data) |-> UnmarshalAPIKey(obj.data[i])],
     HasMore |-> obj.has_more, LastID |-> obj.last_id]

ListAPIKeys(c, limit, beforeID, afterID, status, workspaceID, env) ==
    LET params == LimitParam(limit) \o StringParam("before_id", beforeID)
                  \o StringParam("after_id", afterID) \o StringParam("status", status)
                  \o StringParam("workspace_id", workspaceID)
        r == doRequest(c, MethodGet, WithQuery("/v1/organizations/api_keys", params),
                       NilBody, TRUE, env)
    IN  Returned(r, IF r.into.filled THEN UnmarshalAPIKeyList(r.into.obj)
                    ELSE ZeroListResponse)

-----------------------------------------------------------------------------
(* WorkspacesDataSource.Read and APIKeysDataSource.Read: the loop that     *)
(* fetches every page.  ds holds the position in the loop (pc), its locals *)
(* afterID and all (allWorkspaces / allAPIKeys), and the state the data    *)
(* source has set.  The remote answers each List call when it is made.     *)

PageSize == 100
MaxPages == 3

ListObj(data, hasMore, lastID) == [data |-> data, has_more |-> hasMore, last_id |-> lastID]

(* The pages a remote may serve: with and without has_more, with a         *)
(* last_id, an empty one and none, with no, one and two items.             *)
PagesOf(a, b) ==
    {ListObj(<<a>>, TRUE, Ptr("cursor_1")), ListObj(<<b, a>>, TRUE, Ptr("")),
     ListObj(<<>>, TRUE, Ptr("cursor_2")), ListObj(<<a>>, TRUE, NilPtr),
     ListObj(<<b>>, FALSE, Ptr("cursor_1")), ListObj(<<>>, FALSE, NilPtr)}
WorkspacePages ==
    PagesOf(WorkspaceObj("wrkspc_1", "prod", ""), WorkspaceObj("wrkspc_2", "dev", "2024-06-01"))
APIKeyPages ==
    PagesOf(APIKeyObj("apikey_1", "ci", "active", "", ""),
            APIKeyObj("apikey_2", "cd", "active", "wrkspc_2", ""))
ListAnswers(pages) == Answers({200, 404}, pages) \ {HTTPResponse(404, GarbageBody)}

NoConfig == [status |-> Null, workspace_id |-> Null]
APIKeysConfigs ==
    {[status |-> st, workspace_id |-> w] :
        st \in {Null, StringValue("active")},
        w \in {Null, StringValue("wrkspc_1"), StringValue("")}}

NoState == [present |-> FALSE, items |-> <<>>]
DataSourceIdle ==
    [kind |-> "none", pc |-> "idle", config |-> NoConfig, afterID |-> "", all |-> <<>>,
     state |-> NoState]

WorkspaceModel(w) ==
    [id |-> StringValue(w.ID), name |-> StringValue(w.Name),
     display_name |-> StringValue(w.DisplayName), created_at |-> StringValue(w.CreatedAt),
     archived_at |-> IF w.ArchivedAt # "" THEN StringValue(w.ArchivedAt) ELSE Null]

APIKeyModel(key) ==
    [id |-> StringValue(key.ID), name |-> StringValue(key.Name),
     status |-> StringValue(key.Status), hint |-> StringValue(key.Hint),
     created_at |-> StringValue(key.CreatedAt),
     workspace_id |-> IF key.WorkspaceID # "" THEN StringValue(key.WorkspaceID) ELSE Null]

(* One turn of the loop, from the List call to the break or the next       *)
(* afterID, and on the break the conversion and State.Set that follow;     *)
(* r is what the List call returned.                                       *)
LoopTurnReplacing(d, r, what) ==
    IF ~r.err.nil
    THEN [ds |-> [d EXCEPT !.pc = "failed"], sent |-> r.sent,
          diags |-> <<Diag("Client Error", "Unable to list " \o what \o ": " \o r.err.msg)>>]
    ELSE LET all == r.result.Data
         IN  IF ~r.result.HasMore \/ r.result.LastID.nil
             THEN [ds |-> [d EXCEPT !.pc = "done", !.all = all,
                                    !.state = [present |-> TRUE,
                                               items |-> IF d.kind = "workspaces"
                                                         THEN [i \in 1..Len(all) |-> WorkspaceModel(all[i])]
                                                         ELSE [i \in 1..Len(all) |-> APIKeyModel(all[i])]]],
                   sent |-> r.sent, diags |-> <<>>]
             ELSE [ds |-> [d EXCEPT !.pc = "loop", !.all = all, !.afterID = r.result.LastID.v],
                   sent |-> r.sent, diags |-> <<>>]

LoopTurnKeepingCursor(d, r, what) ==
    IF ~r.err.nil
    THEN [ds |-> [d EXCEPT !.pc = "failed"], sent |-> r.sent,
          diags |-> <<Diag("Client Error", "Unable to list " \o what \o ": " \o r.err.msg)>>]
    ELSE LET all == d.all \o r.result.Data
         IN  IF ~r.result.HasMore \/ r.result.LastID.nil
             THEN [ds |-> [d EXCEPT !.pc = "done", !.all = all,
                                    !.state = [present |-> TRUE,
                                               items |-> IF d.kind = "workspaces"
                                                         THEN [i \in 1..Len(all) |-> WorkspaceModel(all[i])]
                                                         ELSE [i \in 1..Len(all) |-> APIKeyModel(all[i])]]],
                   sent |-> r.sent, diags |-> <<>>]
             ELSE [ds |-> [d EXCEPT !.pc = "loop", !.all = all],
                   sent |-> r.sent, diags |-> <<>>]

LoopTurnReturningPartial(d, r, what) ==
    LET all == IF r.err.nil THEN d.all \o r.result.Data ELSE d.all
        done == [d EXCEPT !.pc = IF r.err.nil THEN "done" ELSE "failed", !.all = all,
                          !.state = [present |-> TRUE,
                                     items |-> IF d.kind = "workspaces"
                                               THEN [i \in 1..Len(all) |-> WorkspaceModel(all[i])]
                                               ELSE [i \in 1..Len(all) |-> APIKeyModel(all[i])]]]
    IN  IF ~r.err.nil
        THEN [ds |-> done, sent |-> r.sent,
              diags |-> <<Diag("Client Error", "Unable to list " \o what \o ": " \o r.err.msg)>>]
        ELSE IF ~r.result.HasMore \/ r.result.LastID.nil
        THEN [ds |-> done, sent |-> r.sent, diags |-> <<>>]
        ELSE [ds |-> [d EXCEPT !.pc = "loop", !.all = all, !.afterID = r.result.LastID.v],
              sent |-> r.sent, diags |-> <<>>]

LoopTurn(d, r, what) ==
    IF ~r.err.nil
    THEN [ds |-> [d EXCEPT !.pc = "failed"], sent |-> r.sent,
          diags |-> <<Diag("Client Error", "Unable to list " \o what \o ": " \o r.err.msg)>>]
    ELSE LET all == d.all \o r.result.Data
         IN  IF ~r.result.HasMore \/ r.result.LastID.nil
             THEN [ds |-> [d EXCEPT !.pc = "done", !.all = all,
                                    !.state = [present |-> TRUE,
                                               items |-> IF d.kind = "workspaces"
                                                         THEN [i \in 1..Len(all) |-> WorkspaceModel(all[i])]
                                                         ELSE [i \in 1..Len(all) |-> APIKeyModel(all[i])]]],
                   sent |-> r.sent, diags |-> <<>>]
             ELSE [ds |-> [d EXCEPT !.pc = "loop", !.all = all, !.afterID = r.result.LastID.v],
                   sent |-> r.sent, diags |-> <<>>]

WorkspacesLoopTurn(c, d, env) ==
    LoopTurn(d, ListWorkspaces(c, PageSize, "", d.afterID, env), "workspaces")

APIKeysLoopTurnFilteringFirstPage(c, d, env) ==
    LET workspaceID == IF ~IsNull(d.config.workspace_id) /\ d.afterID = ""
                       THEN ValueString(d.config.workspace_id) ELSE ""
        status == IF ~IsNull(d.config.status) /\ d.afterID = ""
                  THEN ValueString(d.config.status) ELSE ""
    IN  LoopTurn(d, ListAPIKeys(c, PageSize, "", d.afterID, status, workspaceID, env),
                 "API keys")

APIKeysLoopTurn(c, d, env) ==
    LET workspaceID == IF ~IsNull(d.config.workspace_id)
                       THEN ValueString(d.config.workspace_id) ELSE ""
        status == IF ~IsNull(d.config.status) THEN ValueString(d.config.status) ELSE ""
    IN  LoopTurn(d, ListAPIKeys(c, PageSize, "", d.afterID, status, workspaceID, env),
                 "API keys")

(* Read begins: the locals are zero, and the first turn of the loop runs.  *)
(* call.env holds the remote's answers to the List calls of this Read (a   *)
(* call that sent no request got none).                                    *)
WorkspacesDataSource_Read ==
    /\ ds.pc # "loop"
    /\ \E env \in ListAnswers(WorkspacePages) :
        \E d \in {[DataSourceIdle EXCEPT !.kind = "workspaces"]} :
        \E out \in {WorkspacesLoopTurn(client, d, env)} :
            /\ ds' = out.ds /\ sent' = out.sent /\ diags' = out.diags
            /\ call' = Call("Workspaces.Read", d.config, NoFields,
                            IF out.sent = <<>> THEN <<>> ELSE <<env>>)
    /\ UNCHANGED <<remote, client, ws, ak, wm, inv, errq, item, flight>>

WorkspacesDataSource_Read_NextPage ==
    /\ ds.pc = "loop" /\ ds.kind = "workspaces"
    /\ Len(call.env) < MaxPages
    /\ \E env \in ListAnswers(WorkspacePages) :
        \E out \in {WorkspacesLoopTurn(client, ds, env)} :
            /\ ds' = out.ds /\ sent' = sent \o out.sent /\ diags' = out.diags
            /\ call' = [call EXCEPT !.env = Append(@, env)]
    /\ UNCHANGED <<remote, client, ws, ak, wm, inv, errq, item, flight>>

APIKeysDataSource_Read ==
    /\ ds.pc # "loop"
    /\ \E config \in APIKeysConfigs, env \in ListAnswers(APIKeyPages) :
        \E d \in {[DataSourceIdle EXCEPT !.kind = "api_keys", !.config = config]} :
        \E out \in {APIKeysLoopTurn(client, d, env)} :
            /\ ds' = out.ds /\ sent' = out.sent /\ diags' = out.diags
            /\ call' = Call("APIKeys.Read", config, NoFields,
                            IF out.sent = <<>> THEN <<>> ELSE <<env>>)
    /\ UNCHANGED <<remote, client, ws, ak, wm, inv, errq, item, flight>>

APIKeysDataSource_Read_NextPage ==
    /\ ds.pc = "loop" /\ ds.kind = "api_keys"
    /\ Len(call.env) < MaxPages
    /\ \E env \in ListAnswers(APIKeyPages) :
        \E out \in {APIKeysLoopTurn(client, ds, env)} :
            /\ ds' = out.ds /\ sent' = sent \o out.sent /\ diags' = out.diags
            /\ call' = [call EXCEPT !.env = Append(@, env)]
    /\ UNCHANGED <<remote, client, ws, ak, wm, inv, errq, item, flight>>

-----------------------------------------------------------------------------
(* Error responses: what doRequest reports for a status of 400 or more.    *)
(* errq holds the last error response the remote gave and the error the    *)
(* Domain Operation returned for it.                                       *)

ErrorStatuses == {400, 401, 404, 500}
ErrorObjs ==
    {[type |-> t, message |-> m, hasError |-> FALSE, error |-> [type |-> "", message |-> ""]] :
        t \in {"", "error", "not_found_error"}, m \in {"", "not found"}}
    \cup {[type |-> t, message |-> m, hasError |-> TRUE, error |-> [type |-> t2, message |-> m2]] :
            t \in {"", "error", "not_found_error"}, m \in {"", "not found"},
            t2 \in {"", "invalid_request_error"}, m2 \in {"", "bad request"}}
ErrorAnswers ==
    {HTTPResponse(st, b) : st \in ErrorStatuses,
                           b \in {GarbageBody} \cup {ErrorBody(o) : o \in ErrorObjs}}

NoErrorYet == [env |-> NoAnswer, err |-> NilErr]

GetWorkspace_ErrorResponse ==
    /\ \E id \in WorkspaceIDs, env \in ErrorAnswers :
        \E r \in {GetWorkspace(client, id, env)} :
            /\ errq' = [env |-> env, err |-> r.err]
            /\ sent' = r.sent
    /\ UNCHANGED <<remote, client, diags, call, ws, ak, wm, inv, ds, item, flight>>

-----------------------------------------------------------------------------
(* The Workspace resource against a remote that keeps what it is told: it  *)
(* answers a create with the workspace it stored under a fresh id and not  *)
(* archived, a get with the stored workspace, an update with the renamed   *)
(* one, an archive with the archived one, anything else with 404; it may   *)
(* also fail an exchange, which changes nothing.  remote.previous is the   *)
(* lifecycle call before the current one and whether it succeeded.         *)

MaxRemoteWorkspaces == 2
RemoteArchivedAt == "2024-06-01"
RemoteFaults == {"none", "dial", "unavailable"}
RemoteEmpty == [workspaces |-> <<>>, previous |-> [call |-> Idle, ok |-> FALSE]]

RemoteIndex(workspaces, path, suffix) ==
    {i \in 1..Len(workspaces) :
        path = "/v1/organizations/workspaces/" \o workspaces[i].id \o suffix}

RemoteServe(workspaces, req) ==
    LET got == RemoteIndex(workspaces, req.path, "")
        archived == RemoteIndex(workspaces, req.path, "/archive")
    IN  IF req.method = MethodPost /\ req.path = "/v1/organizations/workspaces"
        THEN LET o == WorkspaceObj("wrkspc_" \o ToString(Len(workspaces) + 1),
                                   req.body.json.name, "")
             IN  [answer |-> HTTPResponse(200, EntityBody(o)),
                  workspaces |-> Append(workspaces, o)]
        ELSE IF req.method = MethodGet /\ got # {}
        THEN [answer |-> HTTPResponse(200, EntityBody(workspaces[CHOOSE i \in got : TRUE])),
              workspaces |-> workspaces]
        ELSE IF req.method = MethodPost /\ got # {}
        THEN LET i == CHOOSE j \in got : TRUE
                 o == [workspaces[i] EXCEPT !.name = req.body.json.name]
             IN  [answer |-> HTTPResponse(200, EntityBody(o)),
                  workspaces |-> [workspaces EXCEPT ![i] = o]]
        ELSE IF req.method = MethodPost /\ archived # {}
        THEN LET i == CHOOSE j \in archived : TRUE
                 o == [workspaces[i] EXCEPT !.archived_at = RemoteArchivedAt]
             IN  [answer |-> HTTPResponse(200, EntityBody(o)),
                  workspaces |-> [workspaces EXCEPT ![i] = o]]
        ELSE [answer |-> HTTPResponse(404, ErrorBody(FlatErrorObj)), workspaces |-> workspaces]

(* The exchange for the requests a handler hands to HTTPClient.Do. *)
Exchange(workspaces, requests, fault) ==
    IF requests = <<>> THEN [answer |-> NoAnswer, workspaces |-> workspaces]
    ELSE IF fault = "dial" THEN [answer |-> TransportFailure, workspaces |-> workspaces]
    ELSE IF fault = "unavailable"
    THEN [answer |-> HTTPResponse(503, GarbageBody), workspaces |-> workspaces]
    ELSE RemoteServe(workspaces, requests[1])

Previous == [call |-> call, ok |-> ~HasError(diags)]

RoundTrip_Create ==
    /\ ~ws.present
    /\ Len(remote.workspaces) < MaxRemoteWorkspaces
    /\ \E name \in WorkspaceNames, fault \in RemoteFaults :
        \E plan \in {WorkspacePlan(ws, name)} :
        \E x \in {Exchange(remote.workspaces,
                           WorkspaceCreate(client, plan, ws, TransportFailure).sent, fault)} :
        \E out \in {WorkspaceCreate(client, plan, ws, x.answer)} :
            /\ ws' = out.state /\ sent' = out.sent /\ diags' = out.diags
            /\ call' = Call("Workspace.Create", plan, ws, x.answer)
            /\ remote' = [workspaces |-> x.workspaces, previous |-> Previous]
    /\ UNCHANGED <<client, ak, wm, inv, ds, errq, item, flight>>

RoundTrip_Read ==
    /\ ws.present
    /\ \E fault \in RemoteFaults :
        \E x \in {Exchange(remote.workspaces,
                           WorkspaceRead(client, ws, TransportFailure).sent, fault)} :
        \E out \in {WorkspaceRead(client, ws, x.answer)} :
            /\ ws' = out.state /\ sent' = out.sent /\ diags' = out.diags
            /\ call' = Call("Workspace.Read", ws, ws, x.answer)
            /\ remote' = [workspaces |-> x.workspaces, previous |-> Previous]
    /\ UNCHANGED <<client, ak, wm, inv, ds, errq, item, flight>>

RoundTrip_Update ==
    /\ ws.present
    /\ \E name \in WorkspaceNames, fault \in RemoteFaults :
        \E plan \in {WorkspacePlan(ws, name)} :
        \E x \in {Exchange(remote.workspaces,
                           WorkspaceUpdate(client, plan, ws, TransportFailure).sent, fault)} :
        \E out \in {WorkspaceUpdate(client, plan, ws, x.answer)} :
            /\ ws' = out.state /\ sent' = out.sent /\ diags' = out.diags
            /\ call' = Call("Workspace.Update", plan, ws, x.answer)
            /\ remote' = [workspaces |-> x.workspaces, previous |-> Previous]
    /\ UNCHANGED <<client, ak, wm, inv, ds, errq, item, flight>>

RoundTrip_Delete ==
    /\ ws.present
    /\ \E fault \in RemoteFaults :
        \E x \in {Exchange(remote.workspaces,
                           WorkspaceDelete(client, ws, TransportFailure).sent, fault)} :
        \E out \in {WorkspaceDelete(client, ws, x.answer)} :
            /\ ws' = out.state /\ sent' = out.sent /\ diags' = out.diags
            /\ call' = Call("Workspace.Delete", ws, ws, x.answer)
            /\ remote' = [workspaces |-> x.workspaces, previous |-> Previous]
    /\ UNCHANGED <<client, ak, wm, inv, ds, errq, item, flight>>

(* Someone else renames or archives a workspace of the remote. *)
Remote_TouchedByAnother ==
    /\ \E i \in 1..Len(remote.workspaces), name \in WorkspaceNames, archivedAt \in {"", RemoteArchivedAt} :
        /\ remote.workspaces[i].archived_at = ""
        /\ remote' = [workspaces |-> [remote.workspaces EXCEPT
                                         ![i] = [@ EXCEPT !.name = name, !.archived_at = archivedAt]],
                      previous |-> Previous]
    /\ call' = Call("Remote.Touched", NoFields, NoFields, NoAnswer)
    /\ sent' = <<>> /\ diags' = <<>>
    /\ UNCHANGED <<client, ws, ak, wm, inv, ds, errq, item, flight>>

-----------------------------------------------------------------------------
(* The provider: Configure, and a Domain Operation made with the client it *)
(* handed out.  call.plan holds the provider block, call.env the           *)
(* environment.  After a Configure that failed the host calls no resource  *)
(* or data source.                                                         *)

AnthropicProvider_Configure ==
    /\ \E cfgKey \in ConfigKeys, envKey \in EnvKeys, cfgURL \in ConfigURLs, envURL \in EnvURLs :
        \E out \in {Configure(cfgKey, envKey, cfgURL, envURL)} :
            /\ client' = out.client /\ diags' = out.diags
            /\ call' = Call("Provider.Configure", [admin_key |-> cfgKey, base_url |-> cfgURL],
                            NoFields, [admin_key |-> envKey, base_url |-> envURL])
    /\ sent' = <<>>
    /\ UNCHANGED <<remote, ws, ak, wm, inv, ds, errq, item, flight>>

GetWorkspace_AfterConfigure ==
    /\ client # NoClient
    /\ \E id \in WorkspaceIDs, env \in {TransportFailure, HTTPResponse(404, ErrorBody(FlatErrorObj))} :
        \E r \in {GetWorkspace(client, id, env)} :
            /\ errq' = [env |-> env, err |-> r.err]
            /\ sent' = r.sent
    /\ UNCHANGED <<remote, client, diags, call, ws, ak, wm, inv, ds, item, flight>>

-----------------------------------------------------------------------------
(* api_keys_data_source.go (second file of it): WorkspaceDataSource;       *)
(* api_key_data_source.go: APIKeyDataSource.  A single-item data source    *)
(* has no prior state: config holds the required id, and the state is set  *)
(* only when Read succeeds.  item keeps the last such Read: which data     *)
(* source, the configuration, the remote's answer and the state written.   *)

WorkspaceDataSourceAttrs == {"id", "name", "display_name", "created_at", "archived_at"}
APIKeyDataSourceAttrs == {"id", "name", "workspace_id", "status", "hint", "created_at"}

WorkspaceDataSourceRead(c, config, env) ==
    LET r == GetWorkspace(c, ValueString(config.id), env)
        workspace == r.result
    IN  IF ~r.err.nil
        THEN [state |-> Absent(WorkspaceDataSourceAttrs), sent |-> r.sent,
              diags |-> <<Diag("Client Error", "Unable to read workspace: " \o r.err.msg)>>]
        ELSE [state |-> [present |-> TRUE, id |-> config.id,
                  name |-> StringValue(workspace.Name),
                  display_name |-> StringValue(workspace.DisplayName),
                  created_at |-> StringValue(workspace.CreatedAt),
                  archived_at |-> IF workspace.ArchivedAt # ""
                                  THEN StringValue(workspace.ArchivedAt) ELSE Null],
              sent |-> r.sent, diags |-> <<>>]

APIKeyDataSourceRead(c, config, env) ==
    LET r == GetAPIKey(c, ValueString(config.id), env)
        apiKey == r.result
    IN  IF ~r.err.nil
        THEN [state |-> Absent(APIKeyDataSourceAttrs), sent |-> r.sent,
              diags |-> <<Diag("Client Error", "Unable to read API key: " \o r.err.msg)>>]
        ELSE [state |-> [present |-> TRUE, id |-> config.id,
                  name |-> StringValue(apiKey.Name),
                  status |-> StringValue(apiKey.Status),
                  hint |-> StringValue(apiKey.Hint),
                  created_at |-> StringValue(apiKey.CreatedAt),
                  workspace_id |-> IF apiKey.WorkspaceID # ""
                                   THEN StringValue(apiKey.WorkspaceID) ELSE Null],
              sent |-> r.sent, diags |-> <<>>]

ItemRead(kind, config, env, state) ==
    [kind |-> kind, config |-> config, env |-> env, state |-> state]
NoItemRead == ItemRead("none", [id |-> Null], NoAnswer, [present |-> FALSE])

(* The host refreshes a data source and the resource of the same id in one *)
(* run: here the data source is read right after a successful Read of the  *)
(* resource, for the id in the resource's state and against the remote     *)
(* entity as it was for that Read (the same answer).                       *)
WorkspaceDataSource_Read ==
    /\ call.op = "Workspace.Read" /\ ~HasError(diags)
    /\ \E config \in {[id |-> ws.id]}, env \in {call.env} :
        \E out \in {WorkspaceDataSourceRead(client, config, env)} :
            /\ item' = ItemRead("Workspace", config, env, out.state)
            /\ sent' = out.sent /\ diags' = out.diags
            /\ call' = Call("WorkspaceDataSource.Read", config, ws, env)
    /\ UNCHANGED <<remote, client, ws, ak, wm, inv, ds, errq, flight>>

APIKeyDataSource_Read ==
    /\ call.op = "APIKey.Read" /\ ~HasError(diags)
    /\ \E config \in {[id |-> ak.id]}, env \in {call.env} :
        \E out \in {APIKeyDataSourceRead(client, config, env)} :
            /\ item' = ItemRead("APIKey", config, env, out.state)
            /\ sent' = out.sent /\ diags' = out.diags
            /\ call' = Call("APIKeyDataSource.Read", config, ak, env)
    /\ UNCHANGED <<remote, client, ws, ak, wm, inv, ds, errq, flight>>

-----------------------------------------------------------------------------
(* Lifecycle calls of two resource instances (a workspace and an API key)  *)
(* running at the same time on the one client Configure handed out.  A     *)
(* call is two steps: up to the request being handed to HTTPClient.Do,     *)
(* which is where doRequest reads the client's fields (client.go:72-81),   *)
(* and from the answer on (client.go:82-106 and the handler's State.Set).  *)
(* flight[k] holds the call of instance k between the two steps: the       *)
(* operation, its plan and prior state, the client fields its request was  *)
(* built from and the request.                                             *)

(* The receiver *Client once doRequest has built and sent a request: no    *)
(* Domain Operation assigns to a field of it.                              *)
ClientAfterDoRequestRebased(c) == WithBaseURL(c, LocalBaseURL)

ClientAfterDoRequest(c) == c

FlightKinds == {"Workspace", "APIKey"}
NotInFlight ==
    [pc |-> "idle", op |-> "none", plan |-> NoFields, prior |-> NoFields, c |-> NoClient,
     sent |-> <<>>]
NoFlights == [k \in FlightKinds |-> NotInFlight]

WorkspaceHandler(op, c, plan, prior, env) ==
    CASE op = "Create" -> WorkspaceCreate(c, plan, prior, env)
      [] op = "Read" -> WorkspaceRead(c, prior, env)
      [] op = "Update" -> WorkspaceUpdate(c, plan, prior, env)
      [] op = "Delete" -> WorkspaceDelete(c, prior, env)

APIKeyHandler(op, c, plan, prior, env) ==
    CASE op = "Create" -> APIKeyCreate(c, plan, prior, env)
      [] op = "Read" -> APIKeyRead(c, prior, env)
      [] op = "Update" -> APIKeyUpdate(c, plan, prior, env)
      [] op = "Delete" -> APIKeyDelete(c, prior, env)

(* The calls the host can make on an instance, with their plans. *)
WorkspaceCalls(state) ==
    IF ~state.present
    THEN {[op |-> "Create", plan |-> WorkspacePlan(state, name)] : name \in WorkspaceNames}
    ELSE {[op |-> "Update", plan |-> WorkspacePlan(state, name)] : name \in WorkspaceNames}
         \cup {[op |-> o, plan |-> state] : o \in {"Read", "Delete"}}

APIKeyCalls(state) ==
    IF ~state.present
    THEN {[op |-> "Create", plan |-> APIKeyPlan(state, "ci", Null, Unknown)]}
    ELSE {[op |-> "Update", plan |-> APIKeyPlan(state, name, state.workspace_id, Unknown)] :
             name \in APIKeyConfigNames}
         \cup {[op |-> o, plan |-> state] : o \in {"Read", "Delete"}}

(* The answers of the remote while two calls are under way. *)
ConcurrentWorkspaceAnswers ==
    {TransportFailure, HTTPResponse(404, ErrorBody(FlatErrorObj)),
     HTTPResponse(200, EntityBody(WorkspaceObj("wrkspc_1", "prod", ""))),
     HTTPResponse(200, EntityBody(WorkspaceObj("wrkspc_1", "dev", "2024-06-01")))}
ConcurrentAPIKeyAnswers ==
    {TransportFailure, HTTPResponse(404, ErrorBody(FlatErrorObj)),
     HTTPResponse(200, EntityBody(APIKeyObj("apikey_1", "ci", "active", "", "sk-ant-api-1"))),
     HTTPResponse(200, EntityBody(APIKeyObj("apikey_1", "ci", "inactive", "wrkspc_1", "")))}

WorkspaceResource_Begin ==
    /\ flight["Workspace"].pc = "idle"
    /\ \E x \in WorkspaceCalls(ws) :
        \E out \in {WorkspaceHandler(x.op, client, x.plan, ws, TransportFailure)} :
            /\ flight' = [flight EXCEPT !["Workspace"] =
                             [pc |-> "sent", op |-> x.op, plan |-> x.plan, prior |-> ws,
                              c |-> client, sent |-> out.sent]]
            /\ sent' = out.sent
            /\ call' = Call("Workspace." \o x.op \o ".Begin", x.plan, ws, NoAnswer)
    /\ client' = ClientAfterDoRequest(client)
    /\ diags' = <<>>
    /\ UNCHANGED <<remote, ws, ak, wm, inv, ds, errq, item>>

WorkspaceResource_End ==
    /\ flight["Workspace"].pc = "sent"
    /\ \E env \in ConcurrentWorkspaceAnswers :
        \E f \in {flight["Workspace"]} :
            \E out \in {WorkspaceHandler(f.op, f.c, f.plan, f.prior, env)} :
                /\ ws' = out.state /\ sent' = out.sent /\ diags' = out.diags
                /\ call' = Call("Workspace." \o f.op, f.plan, f.prior, env)
    /\ flight' = [flight EXCEPT !["Workspace"] = NotInFlight]
    /\ UNCHANGED <<remote, client, ak, wm, inv, ds, errq, item>>

APIKeyResource_Begin ==
    /\ flight["APIKey"].pc = "idle"
    /\ \E x \in APIKeyCalls(ak) :
        \E out \in {APIKeyHandler(x.op, client, x.plan, ak, TransportFailure)} :
            /\ flight' = [flight EXCEPT !["APIKey"] =
                             [pc |-> "sent", op |-> x.op, plan |-> x.plan, prior |-> ak,
                              c |-> client, sent |-> out.sent]]
            /\ sent' = out.sent
            /\ call' = Call("APIKey." \o x.op \o ".Begin", x.plan, ak, NoAnswer)
    /\ client' = ClientAfterDoRequest(client)
    /\ diags' = <<>>
    /\ UNCHANGED <<remote, ws, ak, wm, inv, ds, errq, item>>

APIKeyResource_End ==
    /\ flight["APIKey"].pc = "sent"
    /\ \E env \in ConcurrentAPIKeyAnswers :
        \E f \in {flight["APIKey"]} :
            \E out \in {APIKeyHandler(f.op, f.c, f.plan, f.prior, env)} :
                /\ ak' = out.state /\ sent' = out.sent /\ diags' = out.diags
                /\ call' = Call("APIKey." \o f.op, f.plan, f.prior, env)
    /\ flight' = [flight EXCEPT !["APIKey"] = NotInFlight]
    /\ UNCHANGED <<remote, client, ws, wm, inv, ds, errq, item>>

-----------------------------------------------------------------------------
(* The List operations called with any arguments.  call.plan holds the     *)
(* arguments of the call.                                                  *)

ListLimits == {-1, 0, 1, PageSize}
ListCursors == {"", "wrkspc_9"}
ListStatuses == {"", "active"}
ListArgs(limit, beforeID, afterID, status, workspaceID) ==
    [limit |-> limit, before_id |-> beforeID, after_id |-> afterID, status |-> status,
     workspace_id |-> workspaceID]
ListExchanges == {TransportFailure, HTTPResponse(200, EmptyBody)}

Client_ListWorkspaces ==
    /\ \E limit \in ListLimits, beforeID \in ListCursors, afterID \in ListCursors,
          env \in ListExchanges :
        \E r \in {ListWorkspaces(client, limit, beforeID, afterID, env)} :
            /\ sent' = r.sent
            /\ call' = Call("Client.ListWorkspaces", ListArgs(limit, beforeID, afterID, "", ""),
                            NoFields, env)
    /\ diags' = <<>>
    /\ UNCHANGED <<remote, client, ws, ak, wm, inv, ds, errq, item, flight>>

Client_ListAPIKeys ==
    /\ \E limit \in ListLimits, beforeID \in ListCursors, afterID \in ListCursors,
          status \in ListStatuses, workspaceID \in ListCursors, env \in ListExchanges :
        \E r \in {ListAPIKeys(client, limit, beforeID, afterID, status, workspaceID, env)} :
            /\ sent' = r.sent
            /\ call' = Call("Client.ListAPIKeys",
                            ListArgs(limit, beforeID, afterID, status, workspaceID),
                            NoFields, env)
    /\ diags' = <<>>
    /\ UNCHANGED <<remote, client, ws, ak, wm, inv, ds, errq, item, flight>>

-----------------------------------------------------------------------------
(* Specifications.  Every one starts after provider Configure has handed   *)
(* out a client, with no instance in state and no call made.               *)

InitCommon ==
    /\ client \in ConfiguredClients
    /\ sent = <<>> /\ diags = <<>> /\ call = Idle
    /\ ws = Absent(WorkspaceAttrs)
    /\ ak = Absent(APIKeyAttrs)
    /\ inv = Absent(InviteAttrs)
    /\ wm = Absent(MemberAttrs)
    /\ ds = DataSourceIdle
    /\ errq = NoErrorYet
    /\ remote = RemoteEmpty
    /\ item = NoItemRead
    /\ flight = NoFlights

NextWorkspace ==
    \/ WorkspaceResource_Create
    \/ WorkspaceResource_Read
    \/ WorkspaceResource_Update
    \/ WorkspaceResource_Delete
    \/ WorkspaceResource_ImportState

SpecWorkspace == InitCommon /\ [][NextWorkspace]_vars

NextAPIKey ==
    \/ APIKeyResource_Create
    \/ APIKeyResource_Read
    \/ APIKeyResource_Update
    \/ APIKeyResource_Delete
    \/ APIKeyResource_ImportState

SpecAPIKey == InitCommon /\ [][NextAPIKey]_vars

(* The API key resource from its creation on: the instance comes into the *)
(* state by Create only.                                                   *)
NextAPIKeyCreated ==
    \/ APIKeyResource_Create
    \/ APIKeyResource_Read
    \/ APIKeyResource_Update
    \/ APIKeyResource_Delete

SpecAPIKeyCreated == InitCommon /\ [][NextAPIKeyCreated]_vars

NextInvite ==
    \/ InviteResource_Create
    \/ InviteResource_Read
    \/ InviteResource_Update
    \/ InviteResource_Delete
    \/ InviteResource_ImportState

SpecInvite == InitCommon /\ [][NextInvite]_vars

NextMember ==
    \/ WorkspaceMemberResource_Create
    \/ WorkspaceMemberResource_Read
    \/ WorkspaceMemberResource_Update
    \/ WorkspaceMemberResource_Delete
    \/ WorkspaceMemberResource_ImportState

SpecMember == InitCommon /\ [][NextMember]_vars

(* The four resources together.  Their handlers share nothing but the     *)
(* client, so the host is taken to manage one resource instance at a time: *)
(* a handler of one kind runs while no instance of another kind is held.   *)
OnlyHeld(states) ==
    \A st \in {ws, ak, inv, wm} \ states : ~st.present

NextResources ==
    \/ OnlyHeld({ws}) /\ NextWorkspace
    \/ OnlyHeld({ak}) /\ NextAPIKey
    \/ OnlyHeld({inv}) /\ NextInvite
    \/ OnlyHeld({wm}) /\ NextMember

SpecResources == InitCommon /\ [][NextResources]_vars

(* The Workspace and API key resources (one instance in state at a time)   *)
(* and the single-item data sources of the same kinds; a behaviour ends    *)
(* with the Read of a data source.                                         *)
NextLookup ==
    \/ item = NoItemRead /\ OnlyHeld({ws}) /\ NextWorkspace
    \/ item = NoItemRead /\ OnlyHeld({ak}) /\ NextAPIKey
    \/ WorkspaceDataSource_Read
    \/ APIKeyDataSource_Read

SpecLookup == InitCommon /\ [][NextLookup]_vars

NextConcurrent ==
    \/ WorkspaceResource_Begin
    \/ WorkspaceResource_End
    \/ APIKeyResource_Begin
    \/ APIKeyResource_End

SpecConcurrent == InitCommon /\ [][NextConcurrent]_vars

NextRoundTrip ==
    \/ RoundTrip_Create
    \/ RoundTrip_Read
    \/ RoundTrip_Update
    \/ RoundTrip_Delete
    \/ Remote_TouchedByAnother

SpecRoundTrip == InitCommon /\ [][NextRoundTrip]_vars

NextProvider ==
    \/ AnthropicProvider_Configure
    \/ GetWorkspace_AfterConfigure

SpecProvider == InitCommon /\ [][NextProvider]_vars

NextList ==
    \/ Client_ListWorkspaces
    \/ Client_ListAPIKeys

SpecList == InitCommon /\ [][NextList]_vars

NextDrain ==
    \/ WorkspacesDataSource_Read
    \/ WorkspacesDataSource_Read_NextPage
    \/ APIKeysDataSource_Read
    \/ APIKeysDataSource_Read_NextPage

SpecDrain == InitCommon /\ [][NextDrain]_vars

NextErr == GetWorkspace_ErrorResponse

SpecErr == InitCommon /\ [][NextErr]_vars

-----------------------------------------------------------------------------
(* Properties of the Workspace resource, checked under SpecWorkspace.      *)

ArchivePath(id) == "/v1/organizations/workspaces/" \o id \o "/archive"

(* C1, as stated: Delete of a Workspace issues exactly one request, a POST *)
(* to /v1/organizations/workspaces/{id}/archive for the id in state, and   *)
(* no DELETE, whether the archive call succeeds or fails.                  *)
C1_DeleteIssuesExactlyOneArchive ==
    call.op = "Workspace.Delete" =>
        /\ Len(sent) = 1
        /\ sent[1].method = "POST"
        /\ sent[1].path = ArchivePath(ValueString(call.prior.id))

(* C1, amended: Delete of a Workspace issues at most one request, exactly  *)
(* one unless the request could not be built (the base URL does not        *)
(* parse), and then none; a request it issues is a POST to the archive     *)
(* path of the id in state, with no body, and never a DELETE, whether the  *)
(* archive call succeeds or fails.                                         *)
C1_DeleteArchivesAtMostOnce ==
    call.op = "Workspace.Delete" =>
        /\ Len(sent) = (IF client.BaseURL = UnparsableBaseURL THEN 0 ELSE 1)
        /\ \A i \in 1..Len(sent) :
            /\ sent[i].method = "POST"
            /\ sent[i].method # "DELETE"
            /\ sent[i].path = ArchivePath(ValueString(call.prior.id))
            /\ sent[i].body.nil

C1_Witness ==
    /\ call.op = "Workspace.Delete"
    /\ HasError(diags)
    /\ Len(sent) = 1
    /\ sent[1].path = ArchivePath("wrkspc_2")

-----------------------------------------------------------------------------
(* Properties of the API key resource, checked under SpecAPIKey.           *)

APIKeyPath(id) == "/v1/organizations/api_keys/" \o id

(* C2, as stated: Delete of an API key is exactly one POST to              *)
(* /v1/organizations/api_keys/{id} whose body sets status to "archived"    *)
(* and carries no name; no DELETE is issued.                               *)
C2_DeleteIsExactlyOneArchivingUpdate ==
    call.op = "APIKey.Delete" =>
        /\ Len(sent) = 1
        /\ sent[1].method = "POST"
        /\ sent[1].path = APIKeyPath(ValueString(call.prior.id))
        /\ DOMAIN sent[1].body.json = {"status"}
        /\ sent[1].body.json["status"] = "archived"

(* C2, amended: Delete of an API key issues at most one request, exactly   *)
(* one unless the request could not be built (the base URL does not        *)
(* parse), and then none; a request it issues is the update operation, a   *)
(* POST to /v1/organizations/api_keys/{id} whose body holds status         *)
(* "archived" and no name, and never a DELETE.                             *)
C2_DeleteIsArchivingUpdate ==
    call.op = "APIKey.Delete" =>
        /\ Len(sent) = (IF client.BaseURL = UnparsableBaseURL THEN 0 ELSE 1)
        /\ \A i \in 1..Len(sent) :
            /\ sent[i].method = "POST"
            /\ sent[i].method # "DELETE"
            /\ sent[i].path = APIKeyPath(ValueString(call.prior.id))
            /\ ~sent[i].body.nil
            /\ "name" \notin DOMAIN sent[i].body.json
            /\ DOMAIN sent[i].body.json = {"status"}
            /\ sent[i].body.json["status"] = "archived"

C2_Witness ==
    /\ call.op = "APIKey.Delete"
    /\ ~HasError(diags)
    /\ ~ak.present
    /\ Len(sent) = 1
    /\ sent[1].path = APIKeyPath("apikey_1")

(* C3: the key held in state after a Read or an Update, successful or      *)
(* failed, is the key held before it, whatever the remote answered: a key  *)
(* stored by Create is not replaced and the null key of an imported API    *)
(* key is not filled in.                                                   *)
C3_KeyNeverRefreshed ==
    call.op \in {"APIKey.Read", "APIKey.Update"} => ak.key = call.prior.key

(* a successful Read whose answer carries another key than the one stored *)
C3_Witness ==
    /\ call.op = "APIKey.Read"
    /\ ~HasError(diags)
    /\ call.env.body.kind = "entity"
    /\ ak.key = StringValue("sk-ant-api-1")
    /\ call.env.body.obj.key = "sk-ant-api-2"

(* C4, as stated: the Update request holds name exactly when the desired   *)
(* name differs from the name in state, and status exactly when the        *)
(* desired status differs from the status in state and is not null.        *)
C4_UpdateBodyIsExactDiff ==
    (call.op = "APIKey.Update" /\ Len(sent) = 1) =>
        /\ ("name" \in DOMAIN sent[1].body.json) <=> (call.plan.name # call.prior.name)
        /\ ("status" \in DOMAIN sent[1].body.json)
              <=> (call.plan.status # call.prior.status /\ ~IsNull(call.plan.status))

(* C4, amended: the Update request holds name exactly when the desired     *)
(* name differs from the name in state and is not the empty string, and    *)
(* status exactly when the desired status differs from the status in       *)
(* state and is neither null, unknown nor the empty string; a member that  *)
(* is present holds the desired value.  Unchanged name and status give a   *)
(* body with neither, and changing only status sends only status.          *)
C4_UpdateBodyIsNonEmptyDiff ==
    (call.op = "APIKey.Update" /\ Len(sent) = 1) =>
        LET json == sent[1].body.json
            plan == call.plan
            prior == call.prior
        IN  /\ ~sent[1].body.nil
            /\ ("name" \in DOMAIN json)
                  <=> (plan.name # prior.name /\ plan.name # StringValue(""))
            /\ ("status" \in DOMAIN json)
                  <=> (plan.status # prior.status
                       /\ plan.status \notin {Null, Unknown, StringValue("")})
            /\ "name" \in DOMAIN json => StringValue(json["name"]) = plan.name
            /\ "status" \in DOMAIN json => StringValue(json["status"]) = plan.status
            /\ (plan.name = prior.name /\ plan.status = prior.status) => DOMAIN json = {}

(* changing only status sends only status *)
C4_Witness ==
    /\ call.op = "APIKey.Update"
    /\ Len(sent) = 1
    /\ call.plan.name = call.prior.name
    /\ call.prior.status = StringValue("inactive")
    /\ DOMAIN sent[1].body.json = {"status"}
    /\ sent[1].body.json["status"] = "active"

-----------------------------------------------------------------------------
(* Properties of the Invite resource, checked under SpecInvite.            *)

(* C5: every Update of an Invite fails with an error diagnostic, whatever  *)
(* the planned and the stored values are; it issues no request and writes  *)
(* no state.                                                               *)
C5_InviteUpdateAlwaysRejected ==
    call.op = "Invite.Update" =>
        /\ HasError(diags)
        /\ diags[1].summary = "Update Not Supported"
        /\ sent = <<>>
        /\ inv = call.prior

(* an Update whose plan changes the role of an invite read from the remote *)
C5_Witness ==
    /\ call.op = "Invite.Update"
    /\ call.prior.status = StringValue("pending")
    /\ call.plan.role # call.prior.role
    /\ call.plan.email = call.prior.email

-----------------------------------------------------------------------------
(* Properties of the Workspace Member resource, checked under SpecMember.  *)

(* C8, as stated: a successful Create with planned workspace_id W and      *)
(* user_id U stores id = W/U, workspace_id = W and user_id = U.            *)
C8_CreateStoresPlannedComposite ==
    (call.op = "Member.Create" /\ ~HasError(diags)) =>
        /\ wm.id = StringValue(ValueString(call.plan.workspace_id) \o "/"
                               \o ValueString(call.plan.user_id))
        /\ wm.workspace_id = call.plan.workspace_id
        /\ wm.user_id = call.plan.user_id

(* The member the add call returned: the response's JSON object, or the    *)
(* zero member when the response had no body to decode.                    *)
C8_Echoed ==
    IF call.env.body.kind = "entity" THEN call.env.body.obj ELSE MemberObj("", "", "")

(* C8, amended: a successful Create stores id = W' + "/" + U', with        *)
(* workspace_id = W' and user_id = U', where W' and U' are the             *)
(* workspace_id and user_id of the add call's response (empty when the     *)
(* response carries none); when the response echoes the planned W and U,   *)
(* as for wrkspc_abc123 and user_xyz789, id is W + "/" + U.                *)
C8_CreateStoresEchoedComposite ==
    (call.op = "Member.Create" /\ ~HasError(diags)) =>
        /\ wm.id = StringValue(C8_Echoed.workspace_id \o "/" \o C8_Echoed.user_id)
        /\ wm.workspace_id = StringValue(C8_Echoed.workspace_id)
        /\ wm.user_id = StringValue(C8_Echoed.user_id)
        /\ (/\ StringValue(C8_Echoed.workspace_id) = call.plan.workspace_id
            /\ StringValue(C8_Echoed.user_id) = call.plan.user_id)
           => /\ wm.id = StringValue(ValueString(call.plan.workspace_id) \o "/"
                                     \o ValueString(call.plan.user_id))
              /\ wm.workspace_id = call.plan.workspace_id
              /\ wm.user_id = call.plan.user_id

C8_Witness ==
    /\ call.op = "Member.Create"
    /\ ~HasError(diags)
    /\ call.plan.workspace_id = StringValue("wrkspc_abc123")
    /\ call.plan.user_id = StringValue("user_xyz789")
    /\ wm.id = StringValue("wrkspc_abc123/user_xyz789")
    /\ wm.workspace_id = StringValue("wrkspc_abc123")
    /\ wm.user_id = StringValue("user_xyz789")

C9_Slashes(id) == {i \in 1..Len(id) : id[i] = "/"}

(* C9: ImportState of a workspace member succeeds exactly when the         *)
(* supplied id holds exactly one "/"; it then stores id as supplied,       *)
(* workspace_id as the part before the slash and user_id as the part       *)
(* after it.  Any other id fails with an error naming the format           *)
(* workspace_id/user_id and sets no attribute.                             *)
C9_ImportSplitsOnOneSlash ==
    call.op = "Member.ImportState" =>
        LET id == call.plan
        IN  IF Cardinality(C9_Slashes(id)) = 1
            THEN LET i == CHOOSE j \in C9_Slashes(id) : TRUE
                 IN  /\ ~HasError(diags)
                     /\ wm.present
                     /\ wm.id = StringValue(Str(id))
                     /\ wm.workspace_id = StringValue(Str(SubSeq(id, 1, i - 1)))
                     /\ wm.user_id = StringValue(Str(SubSeq(id, i + 1, Len(id))))
                     /\ sent = <<>>
            ELSE /\ HasError(diags)
                 /\ diags[1].summary = "Invalid Import ID"
                 /\ diags[1].detail = "Expected import ID format: workspace_id/user_id, got: "
                                      \o Str(id)
                 /\ wm = Absent(MemberAttrs)
                 /\ wm = call.prior
                 /\ sent = <<>>

(* an id with two slashes is refused *)
C9_Witness ==
    /\ call.op = "Member.ImportState"
    /\ call.plan = <<"w", "/", "w", "/">>
    /\ HasError(diags)
    /\ ~wm.present

-----------------------------------------------------------------------------
(* Properties of the collection data sources, checked under SpecDrain.     *)

DrainOps == {"Workspaces.Read", "APIKeys.Read"}

(* An answer that is a page: a status below 400 with a list envelope. *)
IsPage(env) == env.net = "ok" /\ env.status < StatusBadRequest /\ env.body.kind = "entity"
HasMoreWithLastID(env) ==
    /\ IsPage(env) /\ env.body.obj.has_more
    /\ ~env.body.obj.last_id.nil /\ env.body.obj.last_id.v # ""
IsLastPage(env) == IsPage(env) /\ ~env.body.obj.has_more

(* The id and name of the items of the pages, in the order served. *)
RECURSIVE ItemsServed(_)
ItemsServed(envs) ==
    IF envs = <<>> THEN <<>>
    ELSE [i \in 1..Len(envs[1].body.obj.data) |->
             <<envs[1].body.obj.data[i].id, envs[1].body.obj.data[i].name>>]
         \o ItemsServed(Tail(envs))
ItemsReturned == [i \in 1..Len(ds.state.items) |->
                     <<ValueString(ds.state.items[i].id), ValueString(ds.state.items[i].name)>>]

(* C6: when the remote has served k pages to a Read of the Workspaces or   *)
(* the API Keys data source, the first k-1 with has_more=true and a        *)
(* last-id, exactly k List calls have been made; if the k-th has           *)
(* has_more=true and a last-id the Read goes on to another call, and if    *)
(* it has has_more=false the Read is over and has returned the items of    *)
(* the k pages, concatenated in the order served.                          *)
C6_DrainConcatenatesPages ==
    (/\ call.op \in DrainOps
     /\ Len(call.env) >= 1
     /\ \A i \in 1..(Len(call.env) - 1) : HasMoreWithLastID(call.env[i]))
    => LET k == Len(call.env)
       IN  /\ Len(sent) = k
           /\ \A i \in 1..k : sent[i].method = MethodGet
           /\ HasMoreWithLastID(call.env[k]) => (ds.pc = "loop" /\ ~ds.state.present)
           /\ IsLastPage(call.env[k]) =>
                 /\ ds.pc = "done"
                 /\ ~HasError(diags)
                 /\ ds.state.present
                 /\ ItemsReturned = ItemsServed(call.env)

(* three pages of one item each *)
C6_Witness ==
    /\ call.op \in DrainOps
    /\ Len(call.env) = 3
    /\ HasMoreWithLastID(call.env[1]) /\ HasMoreWithLastID(call.env[2])
    /\ IsLastPage(call.env[3])
    /\ ds.pc = "done"
    /\ Len(ds.state.items) = 3
    /\ ds.state.items[1].id # ds.state.items[3].id

(* C7: a further page is requested only after a page with has_more=true    *)
(* and a non-empty last-id; after a page with has_more=false, or with a    *)
(* last-id that is absent or the empty string, the Read is over and has    *)
(* returned the items accumulated so far.                                  *)
C7_FurtherPageOnlyAfterNonEmptyLastID ==
    call.op \in DrainOps =>
        /\ \A i \in 1..(Len(call.env) - 1) : HasMoreWithLastID(call.env[i])
        /\ \A i \in 1..Len(call.env) :
              (IsPage(call.env[i]) /\ ~HasMoreWithLastID(call.env[i])) =>
                 /\ i = Len(call.env)
                 /\ ds.pc = "done"
                 /\ ds.state.present
                 /\ ItemsReturned = ItemsServed(call.env)

-----------------------------------------------------------------------------
(* Properties of the error text, checked under SpecErr.                    *)

ErrorPayloadReceived == sent # <<>> /\ errq.env.net = "ok" /\ errq.env.body.kind = "error"
StatusPrefix == "API error (status " \o ToString(errq.env.status) \o "): "

(* C10, as stated: a body {"type":T,"message":M} gives the text "T: M",    *)
(* and whenever the body carries a nested error object the text is made of *)
(* the nested type and message, whatever the top level holds.              *)
C10_NestedObjectAlwaysUsed ==
    ErrorPayloadReceived =>
        LET o == errq.env.body.obj
        IN  /\ ~errq.err.nil
            /\ errq.err.msg = StatusPrefix \o (IF o.hasError
                                               THEN o.error.type \o ": " \o o.error.message
                                               ELSE o.type \o ": " \o o.message)

(* C10, amended: a body {"type":T,"message":M} gives the text "T: M"; a    *)
(* body with a nested error object whose message is not empty gives the    *)
(* nested "T2: M2", whatever the top level holds; a body whose nested      *)
(* error object has no message or an empty one gives the top-level         *)
(* "T: M", whatever the nested type holds.                                 *)
C10_NestedUsedWhenItHasMessage ==
    ErrorPayloadReceived =>
        LET o == errq.env.body.obj
        IN  /\ ~errq.err.nil
            /\ errq.err.msg = StatusPrefix \o (IF o.hasError /\ o.error.message # ""
                                               THEN o.error.type \o ": " \o o.error.message
                                               ELSE o.type \o ": " \o o.message)

(* both levels filled: the nested one is reported *)
C10_Witness ==
    /\ ErrorPayloadReceived
    /\ errq.env.status = 404
    /\ errq.env.body.obj.hasError
    /\ errq.env.body.obj.type = "not_found_error" /\ errq.env.body.obj.message = "not found"
    /\ errq.err.msg = "API error (status 404): invalid_request_error: bad request"

-----------------------------------------------------------------------------
(* Properties of the status handling, checked under SpecWorkspace.         *)

WorkspaceRemoteOps ==
    {"Workspace.Create", "Workspace.Read", "Workspace.Update", "Workspace.Delete"}

(* C11: a response whose status is outside 200-299 makes the Domain        *)
(* Operation fail, and its body is not decoded: the lifecycle call that    *)
(* made it reports an error and stores nothing from the response.          *)
C11_Non2xxIsFailure ==
    (/\ call.op \in WorkspaceRemoteOps
     /\ sent # <<>>
     /\ call.env.net = "ok"
     /\ ~(call.env.status >= 200 /\ call.env.status <= 299))
    => /\ HasError(diags)
       /\ ws = call.prior

-----------------------------------------------------------------------------
(* Properties of the four resources together, checked under SpecResources. *)

ResourceKinds == {"Workspace", "APIKey", "Member", "Invite"}
Stored(kind) ==
    CASE kind = "Workspace" -> ws
      [] kind = "APIKey" -> ak
      [] kind = "Member" -> wm
      [] kind = "Invite" -> inv

(* The Domain Operations that are given no destination to decode into. *)
OpsWithoutResult == {"Member.Delete", "Invite.Delete"}

(* The remote call of the current lifecycle call failed: the request could *)
(* not be built, the exchange broke, the remote answered an error status,  *)
(* or the body meant for the destination was not JSON.                     *)
RemoteCallFailed ==
    \/ client.BaseURL = UnparsableBaseURL
    \/ call.env.net # "ok"
    \/ call.env.status >= StatusBadRequest
    \/ call.op \notin OpsWithoutResult /\ call.env.body.kind = "garbage"

(* C12: for each of the four resource kinds, when the remote call made by  *)
(* Create, Update or Delete fails, the call reports an error diagnostic    *)
(* and the stored state after it equals the stored state before it.        *)
C12_FailedWriteLeavesState ==
    \A kind \in ResourceKinds :
        (/\ call.op \in {kind \o ".Create", kind \o ".Update", kind \o ".Delete"}
         /\ call.op # "Invite.Update"
         /\ RemoteCallFailed)
        => /\ HasError(diags)
           /\ Stored(kind) = call.prior

(* an Update of an API key that met an error status, with a changed name *)
C12_Witness ==
    /\ call.op = "APIKey.Update"
    /\ call.env.net = "ok" /\ call.env.status = 404
    /\ Len(sent) = 1
    /\ call.plan.name # call.prior.name
    /\ HasError(diags)
    /\ ak = call.prior /\ ak.present

(* C13: when the Get made by a resource Read fails, a 404 answer included, *)
(* the Read reports an error, the resource stays in the state and no       *)
(* stored attribute changes.                                               *)
C13_FailedReadKeepsState ==
    \A kind \in ResourceKinds :
        (call.op = kind \o ".Read" /\ RemoteCallFailed)
        => /\ HasError(diags)
           /\ Stored(kind).present
           /\ Stored(kind) = call.prior

(* a Read of an invite answered 404 *)
C13_Witness ==
    /\ call.op = "Invite.Read"
    /\ Len(sent) = 1
    /\ call.env.net = "ok" /\ call.env.status = 404
    /\ HasError(diags)
    /\ inv.present /\ inv = call.prior

(* C14: a Create, Read, Update or Delete of a resource issues exactly one  *)
(* request (none when the request could not be built), after a success and *)
(* after every kind of failure; an Invite Update and every ImportState     *)
(* issue none.                                                             *)
C14_SingleAttempt ==
    \A kind \in ResourceKinds :
        /\ (/\ call.op \in {kind \o ".Create", kind \o ".Read", kind \o ".Update",
                            kind \o ".Delete"}
            /\ call.op # "Invite.Update")
           => Len(sent) = (IF client.BaseURL = UnparsableBaseURL THEN 0 ELSE 1)
        /\ call.op \in {"Invite.Update", kind \o ".ImportState"} => sent = <<>>

(* a Read of a workspace that failed in transport: one request, no second *)
C14_Witness ==
    /\ call.op = "Workspace.Read"
    /\ call.env.net = "dial"
    /\ HasError(diags)
    /\ Len(sent) = 1

-----------------------------------------------------------------------------
(* Properties of the round trip, checked under SpecRoundTrip.              *)

(* C15: a successful Read that directly follows a successful Create of a   *)
(* Workspace with name N, nothing else having touched the workspace in     *)
(* between, stores name = N and archived_at = null and leaves the id that  *)
(* Create stored.                                                          *)
C15_CreateThenReadRoundTrip ==
    (/\ call.op = "Workspace.Read"
     /\ ~HasError(diags)
     /\ remote.previous.call.op = "Workspace.Create"
     /\ remote.previous.ok)
    => /\ ws.present
       /\ ws.name = remote.previous.call.plan.name
       /\ ws.archived_at = Null
       /\ ws.id = call.prior.id
       /\ ~IsNull(ws.id) /\ ValueString(ws.id) # ""

(* the second workspace of the remote, created as "dev" and read back *)
C15_Witness ==
    /\ call.op = "Workspace.Read"
    /\ ~HasError(diags)
    /\ remote.previous.call.op = "Workspace.Create"
    /\ remote.previous.ok
    /\ ws.id = StringValue("wrkspc_2")
    /\ ws.name = StringValue("dev")
    /\ ws.archived_at = Null

-----------------------------------------------------------------------------
(* Properties of provider Configure, checked under SpecProvider.           *)

Configured == call.op = "Provider.Configure"
NonEmpty(v) == ~IsNull(v) /\ ValueString(v) # ""
MissingAdminKey ==
    /\ HasError(diags)
    /\ diags[1].summary = "Missing Admin Key"
    /\ client = NoClient

(* C16, as stated: the credential is the explicit admin_key when it is     *)
(* set and otherwise ANTHROPIC_ADMIN_KEY; Configure succeeds and hands out *)
(* a client whenever one of the two sources holds a non-empty credential,  *)
(* and fails with Missing Admin Key, with no client, only when neither     *)
(* does.                                                                   *)
C16_SucceedsWhenEitherSourceHoldsKey ==
    Configured =>
        IF NonEmpty(call.plan.admin_key) \/ call.env.admin_key # ""
        THEN /\ ~HasError(diags)
             /\ client # NoClient
             /\ client.AdminKey = (IF ~IsNull(call.plan.admin_key)
                                   THEN ValueString(call.plan.admin_key)
                                   ELSE call.env.admin_key)
        ELSE MissingAdminKey

(* C16, amended: the credential is the explicit admin_key when it is set   *)
(* (not null), the empty string included, and otherwise                    *)
(* ANTHROPIC_ADMIN_KEY; Configure succeeds and hands out a client with     *)
(* that credential exactly when it is not empty, and fails with Missing    *)
(* Admin Key, with no client, when it is empty: when neither source holds  *)
(* a credential, and also when admin_key is set to "" whatever the         *)
(* environment holds.                                                      *)
C16_SucceedsWhenResolvedKeyNonEmpty ==
    Configured =>
        LET adminKey == IF ~IsNull(call.plan.admin_key)
                        THEN ValueString(call.plan.admin_key)
                        ELSE call.env.admin_key
        IN  IF adminKey # ""
            THEN /\ ~HasError(diags)
                 /\ client # NoClient
                 /\ client.AdminKey = adminKey
            ELSE MissingAdminKey

(* both sources hold a credential: the explicit one is used *)
C16_Witness ==
    /\ Configured
    /\ call.plan.admin_key = StringValue("sk-ant-admin-1")
    /\ call.env.admin_key = "sk-ant-admin-env"
    /\ ~HasError(diags)
    /\ client.AdminKey = "sk-ant-admin-1"

(* C17, as stated: the base URL of the client, and of every request made   *)
(* with it, is the explicit base_url when it is set, otherwise             *)
(* ANTHROPIC_BASE_URL when that is set, otherwise                          *)
(* https://api.anthropic.com ("set" read as not null or as not empty).     *)
C17_BaseURLExplicitThenEnvThenDefault ==
    (Configured /\ ~HasError(diags)) =>
        LET byNull == IF ~IsNull(call.plan.base_url) THEN ValueString(call.plan.base_url)
                      ELSE IF call.env.base_url # "" THEN call.env.base_url
                      ELSE "https://api.anthropic.com"
            byEmpty == IF NonEmpty(call.plan.base_url) THEN ValueString(call.plan.base_url)
                       ELSE IF call.env.base_url # "" THEN call.env.base_url
                       ELSE "https://api.anthropic.com"
        IN  /\ client.BaseURL \in {byNull, byEmpty}
            /\ \A i \in 1..Len(sent) :
                  sent[i].url \in {byNull \o sent[i].path, byEmpty \o sent[i].path}

(* C17, amended: the base URL of the client, and of every request made     *)
(* with it, is the explicit base_url when it is set and not empty; when    *)
(* base_url is set to the empty string it is the default                   *)
(* https://api.anthropic.com, whatever ANTHROPIC_BASE_URL holds; when      *)
(* base_url is not set it is ANTHROPIC_BASE_URL when that is not empty,    *)
(* and otherwise the default.                                              *)
C17_BaseURLExplicitEmptyMeansDefault ==
    (Configured /\ ~HasError(diags)) =>
        LET baseURL == IF NonEmpty(call.plan.base_url) THEN ValueString(call.plan.base_url)
                       ELSE IF IsNull(call.plan.base_url) /\ call.env.base_url # ""
                       THEN call.env.base_url
                       ELSE "https://api.anthropic.com"
        IN  /\ client.BaseURL = baseURL
            /\ \A i \in 1..Len(sent) : sent[i].url = baseURL \o sent[i].path

(* a request made after base_url was left unset and the environment set *)
C17_Witness ==
    /\ Configured /\ ~HasError(diags)
    /\ IsNull(call.plan.base_url)
    /\ call.env.base_url = LocalBaseURL
    /\ Len(sent) = 1
    /\ sent[1].url = "http://localhost:8080/v1/organizations/workspaces/wrkspc_1"

-----------------------------------------------------------------------------
(* Properties of the page requests of a drain, checked under SpecDrain.    *)

ListPath == IF call.op = "Workspaces.Read" THEN "/v1/organizations/workspaces"
            ELSE "/v1/organizations/api_keys"

(* The last-id of the page the i-th call of the drain returned. *)
LastIDOfPage(i) == call.env[i].body.obj.last_id.v

(* The i-th page request without its filters: limit 100, no before_id,     *)
(* and after the first one the after_id of the page before (an empty one,  *)
(* like every empty argument of List, leaves no parameter).                *)
PageRequestPath(i) ==
    ListPath \o "?limit=100"
    \o (IF i > 1 /\ LastIDOfPage(i - 1) # "" THEN "&after_id=" \o LastIDOfPage(i - 1) ELSE "")

(* The filters of a non-empty status and workspace_id, as List sends them. *)
FilterParams(status, workspaceID) ==
    (IF status # "" THEN "&status=" \o status ELSE "")
    \o (IF workspaceID # "" THEN "&workspace_id=" \o workspaceID ELSE "")

(* C18: every List call of a drain asks for limit 100 with no              *)
(* before-cursor; the first carries no after-cursor and each later one     *)
(* carries the last-id of the page returned by the call before it.         *)
C18_CursorCarriedForward ==
    call.op \in DrainOps =>
        /\ Len(sent) = Len(call.env)
        /\ \A i \in 1..Len(sent) :
              /\ sent[i].method = MethodGet
              /\ sent[i].body = NilBody
              /\ sent[i].path = PageRequestPath(i)
                                \o FilterParams(ValueString(call.plan.status),
                                                ValueString(call.plan.workspace_id))

(* a third call carrying the second page's last-id, not the first's *)
C18_Witness ==
    /\ call.op = "Workspaces.Read"
    /\ Len(sent) = 3
    /\ LastIDOfPage(1) = "cursor_1" /\ LastIDOfPage(2) = "cursor_2"
    /\ sent[1].path = "/v1/organizations/workspaces?limit=100"
    /\ sent[3].path = "/v1/organizations/workspaces?limit=100&after_id=cursor_2"

(* C19, as stated: every page request of an API Keys drain carries the     *)
(* configured status and workspace_id unchanged, and a filter that is null *)
(* in the configuration is left out of every page request.                 *)
C19_ConfiguredFiltersInEveryPage ==
    call.op = "APIKeys.Read" =>
        \A i \in 1..Len(sent) :
            sent[i].path = PageRequestPath(i)
                \o (IF ~IsNull(call.plan.status)
                    THEN "&status=" \o ValueString(call.plan.status) ELSE "")
                \o (IF ~IsNull(call.plan.workspace_id)
                    THEN "&workspace_id=" \o ValueString(call.plan.workspace_id) ELSE "")

(* C19, amended: every page request of an API Keys drain, the first and    *)
(* all later ones, carries the configured status and workspace_id          *)
(* unchanged when they are not empty; a filter that is null or the empty   *)
(* string in the configuration is left out of every page request.          *)
C19_NonEmptyFiltersInEveryPage ==
    call.op = "APIKeys.Read" =>
        \A i \in 1..Len(sent) :
            sent[i].path = PageRequestPath(i)
                \o (IF NonEmpty(call.plan.status)
                    THEN "&status=" \o ValueString(call.plan.status) ELSE "")
                \o (IF NonEmpty(call.plan.workspace_id)
                    THEN "&workspace_id=" \o ValueString(call.plan.workspace_id) ELSE "")

(* both filters on the second page request *)
C19_Witness ==
    /\ call.op = "APIKeys.Read"
    /\ Len(sent) = 2
    /\ call.plan.status = StringValue("active")
    /\ call.plan.workspace_id = StringValue("wrkspc_1")
    /\ sent[2].path
         = "/v1/organizations/api_keys?limit=100&after_id=cursor_1&status=active&workspace_id=wrkspc_1"

-----------------------------------------------------------------------------
(* Properties of the query string, checked under SpecList.                 *)

ListCalls == {"Client.ListWorkspaces", "Client.ListAPIKeys"}

(* The parameters of the current List call in the order of its arguments,  *)
(* each with whether it qualifies; limitQualifies says it for limit.       *)
QueryParameters(limitQualifies) ==
    LET a == call.plan
        common == <<[text |-> "limit=" \o ToString(a.limit), in |-> limitQualifies],
                    [text |-> "before_id=" \o a.before_id, in |-> a.before_id # ""],
                    [text |-> "after_id=" \o a.after_id, in |-> a.after_id # ""]>>
    IN  IF call.op = "Client.ListAPIKeys"
        THEN common \o <<[text |-> "status=" \o a.status, in |-> a.status # ""],
                         [text |-> "workspace_id=" \o a.workspace_id, in |-> a.workspace_id # ""]>>
        ELSE common

(* The qualifying parameters, the first after "?" and the others after "&". *)
RECURSIVE QueryString(_, _)
QueryString(parameters, separator) ==
    IF parameters = <<>> THEN ""
    ELSE IF parameters[1].in
         THEN separator \o parameters[1].text \o QueryString(Tail(parameters), "&")
         ELSE QueryString(Tail(parameters), separator)

ListOperationPath ==
    IF call.op = "Client.ListAPIKeys" THEN "/v1/organizations/api_keys"
    ELSE "/v1/organizations/workspaces"

(* C20, as stated: the path of a List request is the collection's path     *)
(* followed by the parameters whose argument is non-zero (limit) or        *)
(* non-empty (the others), in the order of the arguments, after one "?"    *)
(* and joined by "&"; with no such parameter the path has no "?".          *)
C20_QueryFromNonZeroArguments ==
    (call.op \in ListCalls /\ sent # <<>>) =>
        sent[1].path = ListOperationPath \o QueryString(QueryParameters(call.plan.limit # 0), "?")

(* C20, amended: the same, with limit contributing exactly when it is      *)
(* greater than zero: a zero or negative limit contributes nothing.        *)
C20_QueryFromPositiveLimit ==
    (call.op \in ListCalls /\ sent # <<>>) =>
        /\ Len(sent) = 1
        /\ sent[1].method = MethodGet
        /\ sent[1].path = ListOperationPath \o QueryString(QueryParameters(call.plan.limit > 0), "?")

(* no limit and no before_id: after_id comes right after the "?" *)
C20_Witness ==
    /\ call.op = "Client.ListAPIKeys"
    /\ call.plan.limit = 0
    /\ Len(sent) = 1
    /\ sent[1].path = "/v1/organizations/api_keys?after_id=wrkspc_9&workspace_id=wrkspc_9"

-----------------------------------------------------------------------------
(* Properties of the decoding failure, checked under SpecWorkspace.        *)

(* text holds part as a contiguous run of characters *)
Contains(text, part) ==
    \E i \in 1..(Len(text) - Len(part) + 1) : SubSeq(text, i, i + Len(part) - 1) = part

(* An excerpt of a raw body: a contiguous part of it at least half as long *)
(* as the body (a shorter run, such as the one character a JSON syntax     *)
(* error quotes, tells nothing of the body).                               *)
Excerpts(raw) ==
    {SubSeq(raw, i, j) : i \in 1..Len(raw), j \in 1..Len(raw)} \ {""}

IsExcerptOf(part, raw) == part \in Excerpts(raw) /\ Len(part) * 2 >= Len(raw)

UndecodableSuccess ==
    /\ call.op \in WorkspaceRemoteOps
    /\ sent # <<>>
    /\ call.env.net = "ok"
    /\ call.env.status >= 200 /\ call.env.status <= 299
    /\ call.env.body.kind = "garbage"

(* C21: when a 2xx response carries a non-empty body that is not JSON for  *)
(* the destination, the Domain Operation fails with a decoding failure     *)
(* (the lifecycle call reports it and stores nothing), and the failure     *)
(* text carries an excerpt of the raw response body.                       *)
C21_DecodeFailureCarriesBodyExcerpt ==
    UndecodableSuccess =>
        /\ HasError(diags)
        /\ ws = call.prior
        /\ \E part \in Excerpts(call.env.body.raw) :
              /\ IsExcerptOf(part, call.env.body.raw)
              /\ Contains(diags[1].detail, part)

-----------------------------------------------------------------------------
(* Properties of the single-item data sources, checked under SpecLookup.   *)

WorkspaceSharedAttrs == {"name", "display_name", "created_at", "archived_at"}
APIKeySharedAttrs == {"name", "status", "hint", "created_at", "workspace_id"}

(* C22: for the same remote entity, the single-item data source and the    *)
(* Read of the resource store identical values for every attribute they    *)
(* share, whatever state the resource held before its Read.                *)
C22_DataSourceMirrorsResourceRead ==
    /\ (call.op = "WorkspaceDataSource.Read" /\ item.state.present)
       => \A a \in WorkspaceSharedAttrs : item.state[a] = ws[a]
    /\ (call.op = "APIKeyDataSource.Read" /\ item.state.present)
       => \A a \in APIKeySharedAttrs : item.state[a] = ak[a]

-----------------------------------------------------------------------------
(* Properties of the Workspace Read, checked under SpecRoundTrip.          *)

(* What the answer of the current call reports for a member of the entity  *)
(* ("" when the member, or the whole body, is absent).                     *)
Reported(member) ==
    IF call.env.body.kind = "entity" THEN call.env.body.obj[member] ELSE ""

WorkspaceReadSucceeded == call.op = "Workspace.Read" /\ ~HasError(diags)

(* C23: a successful Workspace Read gets the workspace by the id in state, *)
(* overwrites name, display_name, created_at and archived_at with the      *)
(* remote values and leaves id unchanged; archived_at is null exactly when *)
(* the remote reports no archive timestamp, so a Read of a workspace the   *)
(* remote holds as archived stores a non-null archived_at.                 *)
C23_ReadOverwritesFromRemote ==
    WorkspaceReadSucceeded =>
        /\ Len(sent) = 1
        /\ sent[1].method = MethodGet
        /\ sent[1].path = "/v1/organizations/workspaces/" \o ValueString(call.prior.id)
        /\ ws.present
        /\ ws.id = call.prior.id
        /\ ws.name = StringValue(Reported("name"))
        /\ ws.display_name = StringValue(Reported("display_name"))
        /\ ws.created_at = StringValue(Reported("created_at"))
        /\ IsNull(ws.archived_at) <=> Reported("archived_at") = ""
        /\ Reported("archived_at") # "" => ws.archived_at = StringValue(Reported("archived_at"))
        /\ \A i \in 1..Len(remote.workspaces) :
              (/\ remote.workspaces[i].id = ValueString(ws.id)
               /\ remote.workspaces[i].archived_at # "")
              => ws.archived_at = StringValue(remote.workspaces[i].archived_at)

(* a Read of a workspace archived since the state was written: the state   *)
(* held null and a new name, and now holds the timestamp                   *)
C23_Witness ==
    /\ WorkspaceReadSucceeded
    /\ IsNull(call.prior.archived_at)
    /\ ws.archived_at = StringValue(RemoteArchivedAt)
    /\ ws.name # call.prior.name
    /\ ws.id = call.prior.id

-----------------------------------------------------------------------------
(* Properties of the API key's workspace_id, checked under                 *)
(* SpecAPIKeyCreated.                                                      *)

NoUpdateCarriesWorkspaceID ==
    call.op = "APIKey.Update" =>
        \A i \in 1..Len(sent) : "workspace_id" \notin DOMAIN sent[i].body.json

(* C24, as stated: once an API key has been created, every later Read and  *)
(* Update leaves the workspace_id in state as it was (hence as it was      *)
(* right after Create), and no Update request carries a workspace_id.      *)
C24_WorkspaceIDNeverChanges ==
    /\ call.op \in {"APIKey.Read", "APIKey.Update"} => ak.workspace_id = call.prior.workspace_id
    /\ NoUpdateCarriesWorkspaceID

(* C24, amended: every later Update leaves the workspace_id in state as it *)
(* was and no Update request carries a workspace_id; a Read leaves it as   *)
(* it was when it fails or the remote reports no workspace_id, and         *)
(* otherwise stores the workspace_id the remote reports, equal to the one  *)
(* in state or not.                                                        *)
C24_WorkspaceIDChangedOnlyByRead ==
    /\ call.op = "APIKey.Update" => ak.workspace_id = call.prior.workspace_id
    /\ NoUpdateCarriesWorkspaceID
    /\ call.op = "APIKey.Read" =>
          ak.workspace_id = (IF ~HasError(diags) /\ Reported("workspace_id") # ""
                             THEN StringValue(Reported("workspace_id"))
                             ELSE call.prior.workspace_id)

(* a Read of a key created in wrkspc_1 that the remote now reports in      *)
(* wrkspc_2                                                                *)
C24_Witness ==
    /\ call.op = "APIKey.Read"
    /\ ~HasError(diags)
    /\ call.prior.workspace_id = StringValue("wrkspc_1")
    /\ ak.workspace_id = StringValue("wrkspc_2")

-----------------------------------------------------------------------------
(* Properties of the shared client, checked under SpecConcurrent.          *)

(* The call of instance k ends in this step. *)
Ends(k) == flight[k].pc = "sent" /\ flight'[k].pc = "idle"

(* What the call in flight for instance k gives when it runs alone, from   *)
(* the state the instance holds now, with the client as it is now and the  *)
(* same answer.                                                            *)
RunAlone(k, env) ==
    IF k = "Workspace"
    THEN WorkspaceHandler(flight[k].op, client, flight[k].plan, ws, env)
    ELSE APIKeyHandler(flight[k].op, client, flight[k].plan, ak, env)

-----------------------------------------------------------------------------
(* Properties of the member's composite id, checked under SpecMember.      *)

(* C26: every state held for a workspace member, written by Create,       *)
(* ImportState, Read or Update in any order and whatever the remote        *)
(* answered, has id = workspace_id + "/" + user_id.                        *)
C26_IDIsWorkspaceSlashUser ==
    wm.present =>
        /\ wm.id.k = "value" /\ wm.workspace_id.k = "value" /\ wm.user_id.k = "value"
        /\ wm.id.v = wm.workspace_id.v \o "/" \o wm.user_id.v

(* a Read that stored a new role for a member whose Create was answered    *)
(* with another workspace and no user                                      *)
C26_Witness ==
    /\ call.op = "Member.Read"
    /\ ~HasError(diags)
    /\ wm.workspace_role # call.prior.workspace_role
    /\ wm.id = StringValue("wrkspc_other/")
    /\ wm.workspace_id = StringValue("wrkspc_other")
    /\ wm.user_id = StringValue("")

-----------------------------------------------------------------------------
(* Properties of the resource id, checked under SpecResources.             *)

IDKinds == {"Workspace", "APIKey", "Invite"}

(* The path a request of operation op of a resource of kind kind is        *)
(* addressed to when it is for the entity id.                              *)
EntityPath(kind, op, id) ==
    CASE kind = "Workspace" /\ op = "Delete" -> ArchivePath(id)
      [] kind = "Workspace" /\ op # "Delete" -> "/v1/organizations/workspaces/" \o id
      [] kind = "APIKey" -> APIKeyPath(id)
      [] kind = "Invite" -> "/v1/organizations/invites/" \o id

(* C27: for the Workspace, API key and Invite resources a Read or Update   *)
(* leaves the id in state as it was (hence as Create or ImportState wrote  *)
(* it), and every request of a Read, Update or Delete is addressed to the  *)
(* entity of exactly that id.                                              *)
C27_IDKeptAndAddressed ==
    \A kind \in IDKinds :
        /\ call.op \in {kind \o ".Read", kind \o ".Update"} =>
              /\ Stored(kind).present
              /\ Stored(kind).id = call.prior.id
              /\ call.prior.id.k = "value"
        /\ \A op \in {"Read", "Update", "Delete"} :
              call.op = kind \o "." \o op =>
                  \A i \in 1..Len(sent) : sent[i].path = EntityPath(kind, op, call.prior.id.v)

(* an Update of a workspace answered with a workspace of another id: the   *)
(* request went to the id in state and the state keeps it                  *)
C27_Witness ==
    /\ call.op = "Workspace.Update"
    /\ ~HasError(diags)
    /\ Len(sent) = 1
    /\ call.prior.id = StringValue("wrkspc_1")
    /\ sent[1].path = "/v1/organizations/workspaces/wrkspc_1"
    /\ Reported("id") = "wrkspc_2"
    /\ ws.id = StringValue("wrkspc_1")

-----------------------------------------------------------------------------
(* Properties of the import, checked under SpecResources.                  *)

KindAttrs(kind) ==
    CASE kind = "Workspace" -> WorkspaceAttrs
      [] kind = "APIKey" -> APIKeyAttrs
      [] kind = "Member" -> MemberAttrs
      [] kind = "Invite" -> InviteAttrs

(* The attributes ImportState sets. *)
ImportedAttrs(kind) ==
    IF kind = "Member" THEN {"id", "workspace_id", "user_id"} ELSE {"id"}

(* The current call is a successful Read of a state that ImportState       *)
(* wrote, answered with the entity that was imported.                      *)
ReadOfImported(kind) ==
    /\ call.op = kind \o ".Read"
    /\ ~HasError(diags)
    /\ call.env.body.kind = "entity"
    /\ \A a \in KindAttrs(kind) :
          IF a \in ImportedAttrs(kind) THEN call.prior[a].k = "value" ELSE IsNull(call.prior[a])
    /\ \A a \in ImportedAttrs(kind) \cap DOMAIN call.env.body.obj :
          Reported(a) = call.prior[a].v

(* C28: for each of the four resource kinds, ImportState followed by a     *)
(* successful Read gives a state in which every attribute the remote       *)
(* entity reports, other than the API key's key, holds the remote value    *)
(* (none is left null).                                                    *)
C28_ImportThenReadIsComplete ==
    \A kind \in ResourceKinds :
        ReadOfImported(kind) =>
            \A a \in (KindAttrs(kind) \cap DOMAIN call.env.body.obj) \ {"key"} :
                Reported(a) # "" => Stored(kind)[a] = StringValue(Reported(a))

-----------------------------------------------------------------------------
(* Properties of the end of a drain, checked under SpecDrain.              *)

(* An answer that ends a drain: a failure, a body with no list envelope,   *)
(* has_more=false or no last-id.                                           *)
EndsDrain(env) ==
    \/ ~IsPage(env)
    \/ ~env.body.obj.has_more
    \/ env.body.obj.last_id.nil

(* C29: a Read of a collection data source is over, with the accumulated   *)
(* items returned or an error reported, as soon as the remote answers with *)
(* has_more=false, with no last-id or with a failure, and no two List      *)
(* calls of one drain make the same page request.                          *)
C29_DrainEndsAndNeverRepeatsARequest ==
    call.op \in DrainOps =>
        /\ \A i \in 1..Len(call.env) :
              EndsDrain(call.env[i]) =>
                  /\ i = Len(call.env)
                  /\ ds.pc \in {"done", "failed"}
                  /\ ds.pc = "done" => (ds.state.present /\ ~HasError(diags))
                  /\ ds.pc = "failed" => (~ds.state.present /\ HasError(diags))
        /\ \A i, j \in 1..Len(sent) : i # j => sent[i].path # sent[j].path

-----------------------------------------------------------------------------
(* Properties of a failed drain, checked under SpecDrain.                  *)

(* An answer for which the List call returns an error. *)
FailsList(env) ==
    \/ env.net # "ok"
    \/ env.status >= StatusBadRequest
    \/ env.body.kind = "garbage"

(* C30: when a List call of a drain fails (on its answer, or because its   *)
(* request could not be built), the Read reports an error, makes no        *)
(* further List call and sets no state, whatever the pages before it held. *)
C30_FailedListDiscardsPages ==
    call.op \in DrainOps =>
        /\ \A i \in 1..Len(call.env) :
              FailsList(call.env[i]) =>
                  /\ i = Len(call.env)
                  /\ Len(sent) = i
                  /\ ds.pc = "failed"
                  /\ HasError(diags)
                  /\ ~ds.state.present
        /\ client.BaseURL = UnparsableBaseURL =>
              /\ sent = <<>> /\ call.env = <<>>
              /\ ds.pc = "failed"
              /\ HasError(diags)
              /\ ~ds.state.present

(* two pages of one item each were fetched, then the third List call met   *)
(* an error status: nothing is returned                                    *)
C30_Witness ==
    /\ call.op \in DrainOps
    /\ Len(call.env) = 3
    /\ HasMoreWithLastID(call.env[1]) /\ HasMoreWithLastID(call.env[2])
    /\ call.env[3].net = "ok" /\ call.env[3].status = 404
    /\ Len(ds.all) = 2
    /\ Len(sent) = 3
    /\ ds.pc = "failed"
    /\ HasError(diags)
    /\ ~ds.state.present

====
